---- MODULE Spec2Model ----
(***************************************************************************)
(* Voice session orchestrator of voice-ai (VoiceSession and its Twilio     *)
(* subclass) as a state machine of asyncio tasks.                          *)
(*                                                                         *)
(* Every action is one uninterrupted run of a coroutine between two        *)
(* suspension points (an await that really waits: a network send or        *)
(* receive, or the wait for another task).  asyncio runs such a stretch    *)
(* atomically; the order in which suspended tasks are resumed is free,     *)
(* except that the waiters of one task are resumed in the order in which   *)
(* they started to wait.                                                   *)
(*                                                                         *)
(* Task.cancel() is a request: it marks the task (turn_cancel, tts_cancel) *)
(* and the CancelledError is raised in the task when it is next resumed.   *)
(* Cancelling a task that awaits another task cancels the awaited task.    *)
(***************************************************************************)
EXTENDS Integers, Sequences, FiniteSets, TLC

(* ---------------------------- bounds ---------------------------------- *)
\* EndOfTurn events with text that the STT stream delivers in one call
MaxEOT == 2
\* barge-in triggers that launch an interrupt handler in one call
MaxInterrupts == 2
\* audio frames the TTS provider delivers to turn handlers in one call
MaxFrames == 2
\* clock ticks observed in one call
MaxTime == 4
\* audio frames of the greeting
GreetingFrames == 1
\* messages other than "start" that the telephony side sends first
MaxJunk == 1
\* inbound "media" messages that the telephony side sends after "start"
MaxMedia == 2
\* deltas of one LLM stream
MaxDeltas == 3
\* items of one model response
\* the calls of create_reservation_ticket explored, each on its own database
\* session
MaxCallers == 4
MaxItems == 2

(* ------------------------- program constants -------------------------- *)
\* self._interrupt_debounce_s = 0.400, in milliseconds
DebounceMs == 400
\* self._update_interrupt_min_chars = 4
UpdateInterruptMinChars == 4
\* one clock tick of the model, in milliseconds: half the debounce interval
TickMs == DebounceMs \div 2

\* Five kinds of call are explored.  In a barge-in call the caller interrupts
\* a reply; in a double barge-in call the caller interrupts twice, which takes
\* at least two debounce intervals of time; in a rapid call the caller never
\* interrupts but ends one turn more, so that an EndOfTurn can arrive while an
\* earlier one still waits for the cancelled turn; in a hang-up call the
\* telephony side sends other messages before "start" and ends the call with
\* "stop"; in a logged call every EndOfTurn message that on_stt_message
\* handles is recorded, with or without text.  eot, triggers, frames: the EndOfTurn events with text, the accepted
\* barge-in triggers and the TTS audio frames of the call; ticks: the clock
\* ticks observed; junk: the messages other than "start" sent first; stop: the
\* call is observed up to its end; media: the inbound "media" messages read;
\* log: the call is a logged call.
DebounceTicks == DebounceMs \div TickMs

Calls == { [eot |-> MaxEOT, triggers |-> MaxInterrupts - 1, frames |-> MaxFrames,
            ticks |-> DebounceTicks, junk |-> 0, stop |-> FALSE, media |-> 0, log |-> FALSE],
           [eot |-> MaxEOT, triggers |-> MaxInterrupts, frames |-> 1,
            ticks |-> MaxTime, junk |-> 0, stop |-> FALSE, media |-> 0, log |-> FALSE],
           [eot |-> MaxEOT + 1, triggers |-> 0, frames |-> 1,
            ticks |-> DebounceTicks, junk |-> 0, stop |-> FALSE, media |-> 0, log |-> FALSE],
           [eot |-> 1, triggers |-> 1, frames |-> 1,
            ticks |-> DebounceTicks, junk |-> MaxJunk, stop |-> TRUE, media |-> MaxMedia, log |-> FALSE],
           [eot |-> MaxEOT, triggers |-> 0, frames |-> 1,
            ticks |-> 0, junk |-> 0, stop |-> FALSE, media |-> 0, log |-> TRUE] }

Tasks == 1..(MaxEOT + 1)
Handlers == 1..MaxInterrupts
None == 0

\* transcripts carried by STT events: sequences of characters
Texts == { <<>>, <<" ", " ">>, <<"a", "b", "c">>, <<" ", "a", "b", "c", " ">>,
           <<"a", "b", "c", "d">>, <<" ", "a", " ", "b", "c", " ">> }

VARIABLES
    call,             \* the kind of call (what the caller and the providers will deliver)
    session,          \* lifecycle of the call: constructed, entered, greeting, running
    state,            \* self.state
    seen,             \* the changes of self.state made so far, as pairs <<from, to>>
    overlapped,       \* two _run_turn tasks have been running at once
    prestart,         \* messages other than "start" received before "start"
    start_data,       \* twilio_websocket's start_data: "None" or the "start" message
    conversation_id,  \* self.conversation_id (None = 0)
    speak_epoch,      \* self._speak_epoch
    turn_task,        \* self._turn_task (None = 0, else the task's number)
    tts_task,         \* self._tts_task (None = 0, else the number of the turn that made it)
    barge_in_latched, \* self._barge_in_latched
    last_interrupt,   \* self._last_interrupt_monotonic, in ticks
    now,              \* time.monotonic(), in ticks
    stt_open,         \* number of open STT streams
    ote,              \* on_turn_end task per EndOfTurn: position
    ote_wait,         \* the turn task an on_turn_end task awaits
    turn,             \* _run_turn task made by on_turn_end task i: position
    turn_cancel,      \* cancel() was requested on the turn task
    tts,              \* tts_runner task of turn i: position
    tts_cancel,       \* cancel() was requested on the tts_runner task
    current_epoch,    \* tts_runner's captured current_epoch (0 before the capture)
    my_epoch,         \* value of speak_epoch right after turn i's own increment
    ih,               \* _handle_interrupt task: position
    ih_wait,          \* the tts task an interrupt handler awaits
    ih_epoch,         \* value of speak_epoch right after the handler's increment
    ih_reason,        \* the handler's argument reason
    ih_target,        \* the reply whose TTS task was current when the handler was created
    greet,            \* _send_greeting: position
    greet_frames,     \* greeting frames forwarded so far
    frames,           \* audio frames received by turn handlers so far
    convs,            \* conversations minted by the LLM provider so far
    wire,             \* messages written to the telephony WebSocket, in order
    audio_chunk_count,   \* tts_runner's audio_chunk_count: frames its handler received
    dropped_chunk_count, \* tts_runner's dropped_chunk_count: frames its handler dropped
    inbound,          \* "media" messages twilio_websocket's read loop has read so far
    stt_media,        \* the audio chunks sent to the STT stream (send_media), in order,
                      \* each with self.state at the moment of the send
    stt_msg,          \* the EndOfTurn message on_stt_message handled last, in a
                      \* logged call: its transcript, its number, modulo 2 from 1,
                      \* and self.state at that moment
    llm,              \* the deltas of one LLM stream (stream_complete), in order
    chunk_count,      \* tts_runner's chunk_count: deltas consumed so far
    sentence_buffer,  \* tts_runner's sentence_buffer
    cut,              \* the texts passed to send_to_tts so far, in order
    tts_msgs,         \* the messages sent on the TTS connection, in order
    llm_done,         \* the LLM stream has ended and the remainder was handled
    runner,           \* tts_runner inside its try block: position
    listen,           \* listen_task, the reader of the TTS connection
    agent,            \* ReservationAgent.process: position
    tools,            \* ReservationAgent.tools: the names registered
    response,         \* process's response: the items of the model's first response
    final_response,   \* process's final_response: the items of the second response
    continuation_input,  \* process's continuation_input
    outcomes,         \* how each executed tool call ended: ok, raised, missing
    requests,         \* the inputs of the responses.create requests made so far
    output_text,      \* what process returned: the message items of a response
    codec,            \* the mu-law round trip of one sample: position
    pcm,              \* the 16-bit PCM sample
    mulaw,            \* the mu-law byte of _mulaw_encode
    linear,           \* the sample of _mulaw_decode
    recoded,          \* the mu-law byte of _mulaw_encode applied to linear
    hook,             \* incoming_call: position
    request,          \* the webhook request: its host header, the scheme of
                      \* request.url and its query string
    twiml,            \* the Stream url of the TwiML answer: protocol, host, path
    tickets,          \* the rows of table reservation_tickets, in insertion order
    tk,               \* create_reservation_ticket: position of each call
    next_num          \* create_reservation_ticket: next_num of each call

sessionVars == << call, start_data, session, state, seen, overlapped, prestart, conversation_id, speak_epoch, turn_task, tts_task,
                  barge_in_latched, last_interrupt, now, stt_open, ote, ote_wait,
                  turn, turn_cancel, tts, tts_cancel, current_epoch, my_epoch,
                  ih, ih_wait, ih_epoch, ih_reason, ih_target, greet, greet_frames, frames,
                  convs, wire, audio_chunk_count, dropped_chunk_count,
                  inbound, stt_media, stt_msg >>

\* the components checked on their own, outside a call: the sentence splitter
\* of tts_runner, the tool loop of ReservationAgent and the mu-law codec
textVars == << llm, chunk_count, sentence_buffer, cut, tts_msgs, llm_done, runner, listen >>
agentVars == << agent, tools, response, final_response, continuation_input, outcomes,
                requests, output_text >>
codecVars == << codec, pcm, mulaw, linear, recoded >>
hookVars == << hook, request, twiml >>
ticketVars == << tickets, tk, next_num >>
auxVars == << textVars, agentVars, codecVars, hookVars, ticketVars >>

vars == << sessionVars, auxVars >>

latchVars == << barge_in_latched, last_interrupt >>
oteVars == << ote, ote_wait >>
ihVars == << ih, ih_wait, ih_epoch, ih_reason, ih_target >>
audioVars == << frames, wire >>
chunkVars == << audio_chunk_count, dropped_chunk_count >>
mediaVars == << inbound, stt_media >>

States == {"idle", "listening", "processing", "speaking"}
TaskOver == {"done", "cancelled", "failed"}
\* positions at which a tts_runner holds an open TTS connection
TtsOpen == {"streaming", "awaitListen", "closing"}

\* the sentence splitter at rest
TextIdle ==
    /\ llm = << >>
    /\ chunk_count = 0
    /\ sentence_buffer = << >>
    /\ cut = << >>
    /\ tts_msgs = << >>
    /\ llm_done = FALSE
    /\ runner = "none"
    /\ listen = "none"

\* ReservationAgent after __init__ and the registrations
AgentIdle ==
    /\ agent = "idle"
    /\ tools = {}
    /\ response = << >>
    /\ final_response = << >>
    /\ continuation_input = << >>
    /\ outcomes = << >>
    /\ requests = << >>
    /\ output_text = << >>

\* no sample in the codec
CodecIdle ==
    /\ codec = "idle"
    /\ pcm = 0
    /\ mulaw = 0
    /\ linear = 0
    /\ recoded = 0

\* no webhook request is being answered
HookIdle ==
    /\ hook = "idle"
    /\ request = [host |-> << >>, scheme |-> << >>, query |-> << >>]
    /\ twiml = [protocol |-> "", host |-> << >>, path |-> ""]

\* the reservation_tickets table is empty and no call is under way
TicketIdle ==
    /\ tickets = << >>
    /\ tk = [c \in 1..0 |-> "idle"]
    /\ next_num = [c \in 1..0 |-> 0]

\* the state of a call after twilio_websocket has accepted the WebSocket
SessionStart ==
    /\ session = "accepted"
    /\ stt_msg = [transcript |-> << >>, number |-> 0, during |-> "idle"]
    /\ start_data = "None"
    /\ prestart = 0
    /\ state = "idle"
    /\ seen = {}
    /\ overlapped = FALSE
    /\ conversation_id = None
    /\ speak_epoch = 0
    /\ turn_task = None
    /\ tts_task = None
    /\ barge_in_latched = FALSE
    /\ last_interrupt = 0
    /\ now \in {0, DebounceTicks}
    /\ stt_open = 0
    /\ ote = [i \in Tasks |-> "none"]
    /\ ote_wait = [i \in Tasks |-> None]
    /\ turn = [i \in Tasks |-> "none"]
    /\ turn_cancel = [i \in Tasks |-> FALSE]
    /\ tts = [i \in Tasks |-> "none"]
    /\ tts_cancel = [i \in Tasks |-> FALSE]
    /\ current_epoch = [i \in Tasks |-> 0]
    /\ my_epoch = [i \in Tasks |-> 0]
    /\ ih = [j \in Handlers |-> "none"]
    /\ ih_wait = [j \in Handlers |-> None]
    /\ ih_epoch = [j \in Handlers |-> 0]
    /\ ih_reason = [j \in Handlers |-> << >>]
    /\ ih_target = [j \in Handlers |-> None]
    /\ greet = "none"
    /\ greet_frames = 0
    /\ frames = 0
    /\ convs = 0
    /\ wire = << >>
    /\ audio_chunk_count = [i \in Tasks |-> 0]
    /\ dropped_chunk_count = [i \in Tasks |-> 0]
    /\ inbound = 0
    /\ stt_media = << >>

SessionInit == call \in Calls /\ SessionStart

Init == SessionInit /\ TextIdle /\ AgentIdle /\ CodecIdle /\ HookIdle /\ TicketIdle

(* ------------------------------ helpers ------------------------------- *)
\* str.isspace() for the characters of the model
IsSpace(c) == c \in {" ", "\n"}

RECURSIVE LStrip(_)
LStrip(s) == IF s # << >> /\ IsSpace(Head(s)) THEN LStrip(Tail(s)) ELSE s

RECURSIVE RStrip(_)
RStrip(s) == IF s # << >> /\ IsSpace(s[Len(s)]) THEN RStrip(SubSeq(s, 1, Len(s) - 1)) ELSE s

\* str.strip()
Strip(s) == RStrip(LStrip(s))

\* the record of an assignment self.state = to
Assigned(from, to, log) == IF from = to THEN log ELSE log \cup { << from, to >> }

\* task.done()
TaskDone(p) == p \in TaskOver

\* the _run_turn tasks that are in the processing or speaking phase
Running == { i \in Tasks : turn[i] \in {"awaitConv", "awaitTts"} }

\* the turns started so far, and the one started for the most recent EndOfTurn
Started == { i \in Tasks : turn[i] # "none" }
Latest == IF Started = {} THEN None ELSE CHOOSE i \in Started : \A k \in Started : k <= i

\* An outbound "media" message: written by send_audio for turn i (None: the
\* greeting).  tag is the epoch the handler compared, epoch is speak_epoch and
\* latest the newest turn at the moment of the send; frame is the number of
\* the frame in its TTS stream (the handler's count of the frames received).
Media(i, tag) ==
    [kind |-> "media", turn |-> i, tag |-> tag, epoch |-> speak_epoch, latest |-> Latest,
     frame |-> IF i = None THEN greet_frames + 1 ELSE audio_chunk_count[i] + 1]

\* An outbound "clear" message: written by clear_audio_buffer.  epoch is the
\* value of speak_epoch the interrupt handler found (the pre-interrupt epoch).
Clear ==
    [kind |-> "clear", turn |-> None, tag |-> 0, epoch |-> speak_epoch, latest |-> Latest,
     frame |-> 0]

\* send_audio: one "media" message written to the telephony WebSocket
SendAudio(w, m) == Append(w, m)

\* the running clock
Tick ==
    /\ now < call.ticks
    /\ now' = now + 1
    /\ UNCHANGED << call, stt_msg, start_data, auxVars, chunkVars, mediaVars, overlapped, prestart, seen, session, state, conversation_id, speak_epoch, turn_task, tts_task,
                    barge_in_latched, last_interrupt, stt_open, ote, ote_wait,
                    turn, turn_cancel, tts, tts_cancel, current_epoch, my_epoch,
                    ih, ih_wait, ih_epoch, ih_reason, ih_target, greet, greet_frames, frames,
                    convs, wire >>

(* ------------------------- session lifecycle -------------------------- *)
\* twilio_websocket waits for "start": a message with another event is skipped
ReceiveOther ==
    /\ session = "accepted"
    /\ prestart < call.junk
    /\ prestart' = prestart + 1
    /\ UNCHANGED << call, stt_msg, start_data, auxVars, chunkVars, mediaVars, overlapped, seen, session, state, conversation_id, speak_epoch,
                    turn_task, tts_task, latchVars, now, stt_open, oteVars, turn,
                    turn_cancel, tts, tts_cancel, current_epoch, my_epoch, ihVars,
                    greet, greet_frames, audioVars, convs >>

\* the "start" message: leave the loop and construct TwilioVoiceSession
ReceiveStart ==
    /\ session = "accepted"
    /\ prestart = call.junk
    /\ session' = "constructed"
    /\ start_data' = "start"
    /\ UNCHANGED << call, stt_msg, auxVars, chunkVars, mediaVars, overlapped, prestart, seen, state, conversation_id, speak_epoch,
                    turn_task, tts_task, latchVars, now, stt_open, oteVars, turn,
                    turn_cancel, tts, tts_cancel, current_epoch, my_epoch, ihVars,
                    greet, greet_frames, audioVars, convs >>

\* The telephony side closes the WebSocket before "start": iter_text() ends
\* (it absorbs the disconnect), the "async for" loop is left with start_data
\* still None, and twilio_websocket goes on to construct TwilioVoiceSession.
StreamEndsBeforeStart ==
    /\ session = "accepted"
    /\ session' = "constructed"
    /\ UNCHANGED << call, stt_msg, start_data, auxVars, chunkVars, mediaVars, overlapped, prestart, seen, state, conversation_id, speak_epoch,
                    turn_task, tts_task, latchVars, now, stt_open, oteVars, turn,
                    turn_cancel, tts, tts_cancel, current_epoch, my_epoch, ihVars,
                    greet, greet_frames, audioVars, convs >>

\* WebSocketDisconnect raised inside the loop before "start": twilio_websocket
\* returns
DisconnectBeforeStart ==
    /\ session = "accepted"
    /\ session' = "gone"
    /\ UNCHANGED << call, stt_msg, start_data, auxVars, chunkVars, mediaVars, overlapped, prestart, seen, state, conversation_id, speak_epoch,
                    turn_task, tts_task, latchVars, now, stt_open, oteVars, turn,
                    turn_cancel, tts, tts_cancel, current_epoch, my_epoch, ihVars,
                    greet, greet_frames, audioVars, convs >>

\* a faulty SttOpened: __aenter__ opens no STT stream
SttNotOpened == stt_open

\* self.stt_connection = await self._stt_context_manager.__aenter__()
SttOpened == stt_open + 1

\* await self._stt_context_manager.__aexit__(...)
SttClosed == stt_open - 1

\* VoiceSession.__aenter__: open STT, register handlers, state = listening
AEnter ==
    /\ session = "constructed"
    /\ session' = "entered"
    /\ stt_open' = SttOpened
    /\ state' = "listening"
    /\ seen' = Assigned(state, "listening", seen)
    /\ UNCHANGED << call, stt_msg, start_data, auxVars, chunkVars, mediaVars, overlapped, prestart, conversation_id, speak_epoch, turn_task, tts_task, latchVars, now,
                    oteVars, turn, turn_cancel, tts, tts_cancel, current_epoch,
                    my_epoch, ihVars, greet, greet_frames, audioVars, convs >>

\* TwilioVoiceSession.on_start -> _send_greeting, up to the await of connect.
\* With start_data None, start_data.get raises: the "async with" is left
\* through __aexit__ and no greeting is sent.
OnStart ==
    /\ session = "entered"
    /\ IF start_data = "None"
       THEN /\ session' = "closing"
            /\ UNCHANGED greet
       ELSE /\ session' = "greeting"
            /\ greet' = "connecting"
    /\ UNCHANGED << call, stt_msg, start_data, auxVars, chunkVars, mediaVars, overlapped, prestart, seen, state, conversation_id, speak_epoch, turn_task, tts_task, latchVars,
                    now, stt_open, oteVars, turn, turn_cancel, tts, tts_cancel,
                    current_epoch, my_epoch, ihVars, greet_frames, audioVars, convs >>

\* the greeting's TTS connection is open; text, flush and close are sent
GreetConnected ==
    /\ greet = "connecting"
    /\ greet' = "open"
    /\ UNCHANGED << call, stt_msg, start_data, auxVars, chunkVars, mediaVars, overlapped, prestart, seen, session, state, conversation_id, speak_epoch, turn_task, tts_task,
                    latchVars, now, stt_open, oteVars, turn, turn_cancel, tts,
                    tts_cancel, current_epoch, my_epoch, ihVars, greet_frames,
                    audioVars, convs >>

\* _send_greeting.on_tts_audio: every frame is forwarded, no epoch check
GreetAudio ==
    /\ greet = "open"
    /\ greet_frames < GreetingFrames
    /\ greet_frames' = greet_frames + 1
    /\ wire' = SendAudio(wire, Media(None, 0))
    /\ UNCHANGED << call, stt_msg, start_data, auxVars, chunkVars, mediaVars, overlapped, prestart, seen, session, state, conversation_id, speak_epoch, turn_task, tts_task,
                    latchVars, now, stt_open, oteVars, turn, turn_cancel, tts,
                    tts_cancel, current_epoch, my_epoch, ihVars, greet, frames,
                    convs >>

\* the greeting has drained (await listen_task) and its connection is closed;
\* on_start returns and twilio_websocket enters its read loop
GreetDone ==
    /\ greet = "open"
    /\ greet' = "done"
    /\ session' = "running"
    /\ UNCHANGED << call, stt_msg, start_data, auxVars, chunkVars, mediaVars, overlapped, prestart, seen, state, conversation_id, speak_epoch, turn_task, tts_task, latchVars,
                    now, stt_open, oteVars, turn, turn_cancel, tts, tts_cancel,
                    current_epoch, my_epoch, ihVars, greet_frames, audioVars, convs >>

\* self.stt_connection is set (handle_audio_chunk returns early otherwise)
SttReady == stt_open > 0

\* the n-th inbound chunk as the STT stream receives it
Chunk(n) == [chunk |-> n, during |-> state]

\* a faulty HandleAudioChunk: only the newest chunk is kept for the STT stream
HandleAudioChunkNewest(q, n) == IF SttReady THEN << Chunk(n) >> ELSE q

\* handle_audio_chunk: await self.stt_connection.send_media(pcm_chunk)
HandleAudioChunk(q, n) == IF SttReady THEN Append(q, Chunk(n)) ELSE q

\* twilio_websocket's read loop reads a "media" message: decode, convert and
\* await session.handle_audio_chunk; the next message is read after that
ReceiveMedia ==
    /\ session = "running"
    /\ inbound < call.media
    /\ inbound' = inbound + 1
    /\ stt_media' = HandleAudioChunk(stt_media, inbound + 1)
    /\ UNCHANGED << call, stt_msg, start_data, auxVars, chunkVars, overlapped, prestart, seen, session, state, conversation_id,
                    speak_epoch, turn_task, tts_task, latchVars, now, stt_open, oteVars,
                    turn, turn_cancel, tts, tts_cancel, current_epoch, my_epoch, ihVars,
                    greet, greet_frames, audioVars, convs >>

\* twilio_websocket's read loop ends ("stop", or the socket is disconnected):
\* the "async with" calls __aexit__, which sends CloseStream to the STT stream
Stop ==
    /\ session = "running"
    /\ call.stop
    /\ session' = "closing"
    /\ UNCHANGED << call, stt_msg, start_data, auxVars, chunkVars, mediaVars, overlapped, prestart, seen, state, conversation_id, speak_epoch,
                    turn_task, tts_task, latchVars, now, stt_open, oteVars, turn,
                    turn_cancel, tts, tts_cancel, current_epoch, my_epoch, ihVars,
                    greet, greet_frames, audioVars, convs >>

\* __aexit__ after "await self.stt_listen_task": the STT context manager is
\* left and twilio_websocket returns.  Nothing else is cancelled or awaited.
AExit ==
    /\ session = "closing"
    /\ session' = "closed"
    /\ stt_open' = SttClosed
    /\ UNCHANGED << call, stt_msg, start_data, auxVars, chunkVars, mediaVars, overlapped, prestart, seen, state, conversation_id, speak_epoch,
                    turn_task, tts_task, latchVars, now, oteVars, turn,
                    turn_cancel, tts, tts_cancel, current_epoch, my_epoch, ihVars,
                    greet, greet_frames, audioVars, convs >>

(* ---------------------- STT events: on_stt_message --------------------- *)
\* The STT stream hears the caller only once twilio_websocket's read loop
\* forwards media, that is after on_start has returned.
SttDelivers == session = "running" /\ stt_open > 0

\* message = TurnInfo with event EndOfTurn and this transcript, as on_stt_message
\* receives it; it is recorded in a logged call only
Handled(text) ==
    IF call.log THEN [transcript |-> text, number |-> IF stt_msg.number = 1 THEN 2 ELSE 1,
                      during |-> state]
    ELSE stt_msg

FreeOte == { i \in Tasks : ote[i] = "none" }
FreeHandlers == { j \in Handlers : ih[j] = "none" }
Min(S) == CHOOSE x \in S : \A y \in S : x <= y

\* a faulty TriggerAccepted: the debounce alone decides
TriggerAcceptedDebounceOnly == (now - last_interrupt) * TickMs >= DebounceMs

\* a faulty TriggerAccepted: the latch alone decides
TriggerAcceptedLatchOnly == ~barge_in_latched

\* not self._barge_in_latched and (now - self._last_interrupt_monotonic) >= self._interrupt_debounce_s
TriggerAccepted ==
    /\ ~barge_in_latched
    /\ (now - last_interrupt) * TickMs >= DebounceMs

\* latch, stamp, asyncio.create_task(self._handle_interrupt(...))
LaunchInterrupt(reason) ==
    /\ FreeHandlers # {}
    /\ Min(FreeHandlers) <= call.triggers
    /\ barge_in_latched' = TRUE
    /\ last_interrupt' = now
    /\ ih' = [ih EXCEPT ![Min(FreeHandlers)] = "ready"]
    /\ ih_reason' = [ih_reason EXCEPT ![Min(FreeHandlers)] = reason]
    /\ ih_target' = [ih_target EXCEPT ![Min(FreeHandlers)] = tts_task]
    /\ UNCHANGED << call, stt_msg, start_data, auxVars, chunkVars, mediaVars, overlapped, prestart, seen, session, state, conversation_id, speak_epoch, turn_task, tts_task,
                    now, stt_open, oteVars, turn, turn_cancel, tts, tts_cancel,
                    current_epoch, my_epoch, ih_wait, ih_epoch, greet, greet_frames,
                    audioVars, convs >>

\* event == "StartOfTurn"
SttStartOfTurn ==
    /\ SttDelivers
    /\ IF state = "speaking" /\ TriggerAccepted
       THEN LaunchInterrupt(<< "StartOfTurn" >>)
       ELSE UNCHANGED vars

\* a faulty UpdateTriggers: the transcript is measured with its outer whitespace
UpdateTriggersUnstripped(text) ==
    /\ text # << >>
    /\ state = "speaking"
    /\ Len(text) >= UpdateInterruptMinChars

\* the Update branch launches an interrupt for this transcript
UpdateTriggers(text) ==
    /\ text # << >>
    /\ state = "speaking"
    /\ Len(Strip(text)) >= UpdateInterruptMinChars

\* event == "Update"
SttUpdate ==
    /\ SttDelivers
    /\ \E text \in Texts :
         IF UpdateTriggers(text) /\ TriggerAccepted
         THEN LaunchInterrupt(<< "Update:" >> \o Strip(text))
         ELSE UNCHANGED vars

\* a faulty EndOfTurnSchedules: the transcript is not looked at
EndOfTurnSchedulesAlways(text) == TRUE

\* the EndOfTurn branch schedules a turn for this transcript
EndOfTurnSchedules(text) == text # << >>

\* event == "EndOfTurn": reset the latch, asyncio.create_task(self.on_turn_end(text))
SttEndOfTurn ==
    /\ SttDelivers
    /\ \E text \in Texts :
         IF EndOfTurnSchedules(text)
         THEN /\ FreeOte # {}
              /\ Min(FreeOte) <= call.eot
              /\ barge_in_latched' = FALSE
              /\ ote' = [ote EXCEPT ![Min(FreeOte)] = "ready"]
              /\ stt_msg' = Handled(text)
              /\ UNCHANGED << call, start_data, auxVars, chunkVars, mediaVars, overlapped, prestart, seen, session, state, conversation_id, speak_epoch, turn_task,
                              tts_task, last_interrupt, now, stt_open, ote_wait, turn,
                              turn_cancel, tts, tts_cancel, current_epoch, my_epoch,
                              ihVars, greet, greet_frames, audioVars, convs >>
         ELSE /\ stt_msg' = Handled(text)
              /\ UNCHANGED << call, start_data, auxVars, chunkVars, mediaVars, overlapped, prestart, seen, session, state, conversation_id, speak_epoch, turn_task,
                              tts_task, latchVars, now, stt_open, oteVars, turn,
                              turn_cancel, tts, tts_cancel, current_epoch, my_epoch,
                              ihVars, greet, greet_frames, audioVars, convs >>

(* --------------------------- on_turn_end ------------------------------ *)
\* self._turn_task and not self._turn_task.done()
PreviousTurnRunning == turn_task # None /\ ~TaskDone(turn[turn_task])

\* Task.cancel() on turn task k: the request reaches the tts_runner task
\* when the turn is waiting for it
CancelTurn(k) ==
    /\ turn_cancel' = [turn_cancel EXCEPT ![k] = TRUE]
    /\ tts_cancel' = IF turn[k] = "awaitTts" /\ ~TaskDone(tts[k])
                     THEN [tts_cancel EXCEPT ![k] = TRUE]
                     ELSE tts_cancel

\* self._turn_task = asyncio.create_task(self._run_turn(transcript))
CreateTurn(i) ==
    /\ turn_task' = i
    /\ turn' = [turn EXCEPT ![i] = "ready"]

\* on_turn_end from its start: cancel and await a running turn, else start the new one.
\* Tasks made by create_task take their first step in the order of their creation.
OnTurnEnd(i) ==
    /\ ote[i] = "ready"
    /\ \A k \in Tasks : k < i => ote[k] # "ready"
    /\ IF PreviousTurnRunning
       THEN /\ CancelTurn(turn_task)
            /\ ote' = [ote EXCEPT ![i] = "await"]
            /\ ote_wait' = [ote_wait EXCEPT ![i] = turn_task]
            /\ UNCHANGED << turn_task, turn >>
       ELSE /\ CreateTurn(i)
            /\ ote' = [ote EXCEPT ![i] = "done"]
            /\ UNCHANGED << ote_wait, turn_cancel, tts_cancel >>
    /\ UNCHANGED << call, stt_msg, start_data, auxVars, chunkVars, mediaVars, overlapped, prestart, seen, session, state, conversation_id, speak_epoch, tts_task, latchVars,
                    now, stt_open, tts, current_epoch, my_epoch, ihVars, greet,
                    greet_frames, audioVars, convs >>

\* on_turn_end resumes after "await self._turn_task": the awaited turn is over.
\* The waiters of one task resume in the order in which they started to wait.
OnTurnEndResume(i) ==
    /\ ote[i] = "await"
    /\ TaskDone(turn[ote_wait[i]])
    /\ \A k \in Tasks : k < i => ~(ote[k] = "await" /\ ote_wait[k] = ote_wait[i])
    /\ CreateTurn(i)
    /\ ote' = [ote EXCEPT ![i] = "done"]
    /\ UNCHANGED << call, stt_msg, start_data, auxVars, chunkVars, mediaVars, overlapped, prestart, seen, session, state, conversation_id, speak_epoch, tts_task, latchVars,
                    now, stt_open, ote_wait, turn_cancel, tts, tts_cancel,
                    current_epoch, my_epoch, ihVars, greet, greet_frames, audioVars,
                    convs >>

(* ------------------- _run_turn / process_llm_and_tts ------------------ *)
\* a faulty TurnEpoch: the turn forgets the increment
TurnEpochKept == speak_epoch

\* self._speak_epoch += 1 in process_llm_and_tts
TurnEpoch == speak_epoch + 1

\* a faulty LatchAtSpeaking: the turn leaves the latch as it finds it
LatchAtSpeakingKept == barge_in_latched

\* "self._barge_in_latched = False" in process_llm_and_tts
LatchAtSpeaking == FALSE

\* process_llm_and_tts from "self._speak_epoch += 1" to "await self._tts_task":
\* enter speaking, clear the latch, create the tts_runner task and wait for it.
\* The runner touches nothing of the session before it waits for its TTS
\* connection, so it is created at that wait.
EnterSpeaking(i) ==
    /\ speak_epoch' = TurnEpoch
    /\ my_epoch' = [my_epoch EXCEPT ![i] = TurnEpoch]
    /\ state' = "speaking"
    /\ barge_in_latched' = LatchAtSpeaking
    /\ tts' = [tts EXCEPT ![i] = "connecting"]
    /\ tts_task' = i
    /\ turn' = [turn EXCEPT ![i] = "awaitTts"]

\* a faulty TurnFinallyState: _run_turn has no finally block
TurnFinallyKept == state

\* a faulty TurnFinallyState: the finally block resets to the initial state
TurnFinallyIdle == "idle"

\* the state _run_turn's finally block leaves
TurnFinallyState == "listening"

\* a turn task that is cancelled before its first step never runs any code
TurnCancelledUnstarted(i) ==
    /\ turn[i] = "ready"
    /\ turn_cancel[i]
    /\ turn' = [turn EXCEPT ![i] = "cancelled"]
    /\ UNCHANGED << call, stt_msg, start_data, auxVars, chunkVars, mediaVars, overlapped, prestart, seen, session, state, conversation_id, speak_epoch, turn_task, tts_task,
                    latchVars, now, stt_open, oteVars, turn_cancel, tts, tts_cancel,
                    current_epoch, my_epoch, ihVars, greet, greet_frames, audioVars,
                    convs >>

\* _run_turn from its start: state = processing, then process_llm_and_tts up
\* to its first suspension
RunTurn(i) ==
    /\ turn[i] = "ready"
    /\ ~turn_cancel[i]
    /\ IF conversation_id = None
       THEN /\ state' = "processing"
            /\ seen' = Assigned(state, "processing", seen)
            /\ turn' = [turn EXCEPT ![i] = "awaitConv"]
            /\ UNCHANGED << speak_epoch, my_epoch, barge_in_latched, tts, tts_task >>
       ELSE /\ EnterSpeaking(i)
            /\ seen' = Assigned("processing", "speaking", Assigned(state, "processing", seen))
    /\ overlapped' = (overlapped \/ Running # {})
    /\ UNCHANGED << call, stt_msg, start_data, auxVars, chunkVars, mediaVars, prestart, session, conversation_id, turn_task, last_interrupt, now, stt_open,
                    oteVars, turn_cancel, tts_cancel, current_epoch, ihVars, greet,
                    greet_frames, audioVars, convs >>

\* self.conversation_id = await self.llm.create_conversation() returns
ConversationCreated(i) ==
    /\ turn[i] = "awaitConv"
    /\ ~turn_cancel[i]
    /\ convs' = convs + 1
    /\ conversation_id' = convs + 1
    /\ EnterSpeaking(i)
    /\ seen' = Assigned(state, "speaking", seen)
    /\ UNCHANGED << call, stt_msg, start_data, auxVars, chunkVars, mediaVars, overlapped, prestart, session, turn_task, last_interrupt, now, stt_open, oteVars,
                    turn_cancel, tts_cancel, current_epoch, ihVars, greet,
                    greet_frames, audioVars >>

\* create_conversation raises, or the turn is cancelled while it waits for it:
\* _run_turn's finally block runs
ConversationAborted(i) ==
    /\ turn[i] = "awaitConv"
    /\ state' = TurnFinallyState
    /\ seen' = Assigned(state, TurnFinallyState, seen)
    /\ turn' = [turn EXCEPT ![i] = IF turn_cancel[i] THEN "cancelled" ELSE "failed"]
    /\ UNCHANGED << call, stt_msg, start_data, auxVars, chunkVars, mediaVars, overlapped, prestart, session, conversation_id, speak_epoch, turn_task, tts_task,
                    latchVars, now, stt_open, oteVars, turn_cancel, tts, tts_cancel,
                    current_epoch, my_epoch, ihVars, greet, greet_frames, audioVars,
                    convs >>

\* the interrupt handlers that wait for the tts_runner task of turn i
Waiting(i) == { j \in Handlers : ih[j] = "awaitTts" /\ ih_wait[j] = i }

\* "await self._tts_task" ends (result, exception or cancellation): the finally
\* blocks of process_llm_and_tts and _run_turn run.
\* An interrupt handler that awaits the same task started to wait after the
\* turn, so the event loop resumes it right after the turn with nothing in
\* between: it swallows the CancelledError and sets state = listening.
TurnResume(i) ==
    /\ turn[i] = "awaitTts"
    /\ TaskDone(tts[i])
    /\ tts_task' = None
    /\ state' = TurnFinallyState
    /\ seen' = Assigned(state, TurnFinallyState, seen)
    /\ turn' = [turn EXCEPT ![i] =
                  IF turn_cancel[i] \/ tts[i] = "cancelled" THEN "cancelled"
                  ELSE IF tts[i] = "failed" THEN "failed" ELSE "done"]
    /\ ih' = [j \in Handlers |-> IF j \in Waiting(i) THEN "done" ELSE ih[j]]
    /\ UNCHANGED << call, stt_msg, start_data, auxVars, chunkVars, mediaVars, overlapped, prestart, session, conversation_id, speak_epoch, turn_task, latchVars, now,
                    stt_open, oteVars, turn_cancel, tts, tts_cancel, current_epoch,
                    my_epoch, ih_wait, ih_epoch, ih_reason, ih_target, greet, greet_frames, audioVars, convs >>

(* ------------------------------ tts_runner ---------------------------- *)
ttsFrame == << call, stt_msg, start_data, auxVars, chunkVars, mediaVars, overlapped, prestart, seen, session, state, conversation_id, speak_epoch, turn_task, tts_task,
               latchVars, now, stt_open, oteVars, turn, turn_cancel, tts_cancel,
               my_epoch, ihVars, greet, greet_frames, audioVars, convs >>

\* the epoch that tts_runner captures once its connection is open
CapturedEpoch(i) == speak_epoch

\* the connection is open: current_epoch = self._speak_epoch, handlers
\* registered, listen task started, LLM stream requested
TtsConnected(i) ==
    /\ tts[i] = "connecting"
    /\ ~tts_cancel[i]
    /\ tts' = [tts EXCEPT ![i] = "streaming"]
    /\ current_epoch' = [current_epoch EXCEPT ![i] = CapturedEpoch(i)]
    /\ UNCHANGED ttsFrame

\* connect raises, or the runner is cancelled before its connection is open
TtsConnectAborted(i) ==
    /\ tts[i] = "connecting"
    /\ tts' = [tts EXCEPT ![i] = IF tts_cancel[i] THEN "cancelled" ELSE "failed"]
    /\ UNCHANGED ttsFrame
    /\ UNCHANGED current_epoch

\* the LLM stream has ended, the remainder is flushed and Close is sent:
\* the runner waits for listen_task
TtsSendClose(i) ==
    /\ tts[i] = "streaming"
    /\ ~tts_cancel[i]
    /\ tts' = [tts EXCEPT ![i] = "awaitListen"]
    /\ UNCHANGED ttsFrame
    /\ UNCHANGED current_epoch

\* listen_task ends because the TTS service closed the stream;
\* or an exception in the try block (LLM or TTS send) is logged and swallowed;
\* or CancelledError is handled: listen_task.cancel(), re-raise.
\* In each case the runner leaves the "async with" and closes the connection.
TtsLeave(i) ==
    /\ tts[i] \in {"streaming", "awaitListen"}
    /\ tts' = [tts EXCEPT ![i] = "closing"]
    /\ UNCHANGED ttsFrame
    /\ UNCHANGED current_epoch

\* the connection is closed and the runner task ends
TtsClosed(i) ==
    /\ tts[i] = "closing"
    /\ tts' = [tts EXCEPT ![i] = IF tts_cancel[i] THEN "cancelled" ELSE "done"]
    /\ UNCHANGED ttsFrame
    /\ UNCHANGED current_epoch

\* the listen task of runner i is alive and can deliver a frame
ListenerAlive(i) ==
    \/ tts[i] = "streaming"
    \/ tts[i] = "awaitListen" /\ ~tts_cancel[i]

\* a faulty Stale: the handler drops every frame
StaleAlways(i) == TRUE

\* a faulty Stale: the handler forwards every frame
StaleNever(i) == FALSE

\* current_epoch != self._speak_epoch
Stale(i) == current_epoch[i] # speak_epoch

\* on_tts_audio(message) for a bytes message: count it, drop a stale frame,
\* else send_audio.  The listener awaits the handler before it reads the next
\* message of the TTS stream.
OnTtsAudio(i) ==
    /\ ListenerAlive(i)
    /\ frames < call.frames
    /\ frames' = frames + 1
    /\ audio_chunk_count' = [audio_chunk_count EXCEPT ![i] = @ + 1]
    /\ dropped_chunk_count' = [dropped_chunk_count EXCEPT ![i] = IF Stale(i) THEN @ + 1 ELSE @]
    /\ wire' = IF Stale(i) THEN wire ELSE SendAudio(wire, Media(i, current_epoch[i]))
    /\ UNCHANGED << call, stt_msg, start_data, auxVars, mediaVars, overlapped, prestart, seen, session, state, conversation_id, speak_epoch, turn_task, tts_task,
                    latchVars, now, stt_open, oteVars, turn, turn_cancel, tts,
                    tts_cancel, current_epoch, my_epoch, ihVars, greet, greet_frames,
                    convs >>

(* --------------------------- _handle_interrupt ------------------------ *)
\* self._tts_task and not self._tts_task.done()
TtsTaskActive == tts_task # None /\ ~TaskDone(tts[tts_task])

\* a faulty InterruptEpoch: the handler forgets the increment
InterruptEpochKept == speak_epoch

\* self._speak_epoch += 1 in _handle_interrupt
InterruptEpoch == speak_epoch + 1

\* a faulty AlreadyHandled: the handler does not look at the state
AlreadyHandledNever == FALSE

\* "if self.state != VoiceState.SPEAKING: return  # already handled"
AlreadyHandled == state # "speaking"

\* _handle_interrupt from its start to "await self.clear_audio_buffer()"
HandleInterrupt(j) ==
    /\ ih[j] = "ready"
    /\ \A k \in Handlers : k < j => ih[k] # "ready"
    /\ IF AlreadyHandled
       THEN /\ ih' = [ih EXCEPT ![j] = "done"]
            /\ UNCHANGED << speak_epoch, ih_epoch, wire >>
       ELSE /\ speak_epoch' = InterruptEpoch
            /\ ih_epoch' = [ih_epoch EXCEPT ![j] = InterruptEpoch]
            /\ wire' = Append(wire, Clear)
            /\ ih' = [ih EXCEPT ![j] = "awaitClear"]
    /\ UNCHANGED << call, stt_msg, start_data, auxVars, chunkVars, mediaVars, overlapped, prestart, seen, session, state, conversation_id, turn_task, tts_task, latchVars,
                    now, stt_open, oteVars, turn, turn_cancel, tts, tts_cancel,
                    current_epoch, my_epoch, ih_wait, ih_reason, ih_target, greet, greet_frames, frames,
                    convs >>


\* self._tts_task.cancel()
CancelTts(k) == [tts_cancel EXCEPT ![k] = TRUE]

\* the clear message is sent: cancel and await the TTS runner if it is active
\* (the handler goes on in TurnResume), else set state = listening
InterruptCleared(j) ==
    /\ ih[j] = "awaitClear"
    /\ IF TtsTaskActive
       THEN /\ tts_cancel' = CancelTts(tts_task)
            /\ ih' = [ih EXCEPT ![j] = "awaitTts"]
            /\ ih_wait' = [ih_wait EXCEPT ![j] = tts_task]
            /\ UNCHANGED << state, seen >>
       ELSE /\ state' = "listening"
            /\ seen' = Assigned(state, "listening", seen)
            /\ ih' = [ih EXCEPT ![j] = "done"]
            /\ UNCHANGED << tts_cancel, ih_wait >>
    /\ UNCHANGED << call, stt_msg, start_data, auxVars, chunkVars, mediaVars, overlapped, prestart, session, conversation_id, speak_epoch, turn_task, tts_task,
                    latchVars, now, stt_open, oteVars, turn, turn_cancel, tts,
                    current_epoch, my_epoch, ih_epoch, ih_reason, ih_target, greet, greet_frames, audioVars,
                    convs >>

Next ==
    \/ Tick
    \/ ReceiveOther
    \/ ReceiveStart
    \/ StreamEndsBeforeStart
    \/ DisconnectBeforeStart
    \/ AEnter
    \/ Stop
    \/ AExit
    \/ OnStart
    \/ GreetConnected
    \/ GreetAudio
    \/ GreetDone
    \/ ReceiveMedia
    \/ SttStartOfTurn
    \/ SttUpdate
    \/ SttEndOfTurn
    \/ \E i \in Tasks : OnTurnEnd(i)
    \/ \E i \in Tasks : OnTurnEndResume(i)
    \/ \E i \in Tasks : TurnCancelledUnstarted(i)
    \/ \E i \in Tasks : RunTurn(i)
    \/ \E i \in Tasks : ConversationCreated(i)
    \/ \E i \in Tasks : ConversationAborted(i)
    \/ \E i \in Tasks : TurnResume(i)
    \/ \E i \in Tasks : TtsConnected(i)
    \/ \E i \in Tasks : TtsConnectAborted(i)
    \/ \E i \in Tasks : TtsSendClose(i)
    \/ \E i \in Tasks : TtsLeave(i)
    \/ \E i \in Tasks : TtsClosed(i)
    \/ \E i \in Tasks : OnTtsAudio(i)
    \/ \E j \in Handlers : HandleInterrupt(j)
    \/ \E j \in Handlers : InterruptCleared(j)

Spec == Init /\ [][Next]_vars

\* The call with its progress assumptions for an interrupt: a handler that can
\* take a step takes it (the send of "clear" completes), a cancelled tts_runner
\* gets its CancelledError and closes its connection, and a turn whose TTS task
\* is over resumes.  Nothing is assumed about a reply that is not cancelled:
\* its LLM and TTS streams may never end.
CancelCompletes(i) ==
    tts_cancel[i] /\ (TtsConnectAborted(i) \/ TtsLeave(i) \/ TtsClosed(i))

\* The calls observed for recovery: a rapid call with a barge-in, observed
\* before the first TTS frame and within one debounce interval, and a
\* barge-in call that also begins with another message, carries inbound
\* media and is hung up.
RecoveryCalls == { [eot |-> MaxEOT + 1, triggers |-> MaxInterrupts - 1, frames |-> 0,
                    ticks |-> 0, junk |-> 0, stop |-> FALSE, media |-> 0, log |-> FALSE],
                   [eot |-> 1, triggers |-> MaxInterrupts - 1, frames |-> 1,
                    ticks |-> DebounceTicks, junk |-> MaxJunk, stop |-> TRUE, media |-> 1, log |-> FALSE] }

InitRecovery ==
    /\ call \in RecoveryCalls
    /\ SessionStart
    /\ TextIdle
    /\ AgentIdle
    /\ CodecIdle
    /\ HookIdle
    /\ TicketIdle

SpecRecovery ==
    /\ InitRecovery
    /\ [][Next]_vars
    /\ WF_vars(\E j \in Handlers : HandleInterrupt(j))
    /\ WF_vars(\E j \in Handlers : InterruptCleared(j))
    /\ WF_vars(\E i \in Tasks : CancelCompletes(i))
    /\ WF_vars(\E i \in Tasks : TurnResume(i))

(* ------------- tts_runner: from LLM deltas to TTS sentences ------------ *)
\* The deltas an LLM stream may deliver, as sequences of characters.
Deltas == { << "a", "." >>, << " ", "b" >>, << "a", ".", " ", "b", "!", " " >>,
            << " " >>, << "\n", "\n" >>, << "a", "\n" >>, << "\n", "b", "?" >>,
            << "*", "*", "a", "*", "*" >>, << "*", "a", "*", " " >>, << "*", " ", "b" >>,
            << "*" >> }

\* the LLM streams explored: up to MaxDeltas deltas
Streams == UNION { [1..n -> Deltas] : n \in 0..MaxDeltas }

RECURSIVE Concat(_)
Concat(ss) == IF ss = << >> THEN << >> ELSE Head(ss) \o Concat(Tail(ss))

\* s[from:] of Python, from counted from 0
From(s, from) == SubSeq(s, from + 1, Len(s))

\* the length of the longest prefix of s made of characters of set C
RECURSIVE Run(_, _)
Run(s, C) == IF s # << >> /\ Head(s) \in C THEN 1 + Run(Tail(s), C) ELSE 0

\* re.search(r'[.!?]\s+|\n\n+', s): the places (counted from 1) where a match starts
SentenceEnds(s) ==
    { p \in 1..(Len(s) - 1) :
        \/ s[p] \in {".", "!", "?"} /\ IsSpace(s[p + 1])
        \/ s[p] = "\n" /\ s[p + 1] = "\n" }

\* a faulty MatchEnd: the end of the last match instead of the leftmost
MatchEndOfLast(s) ==
    IF SentenceEnds(s) = {} THEN 0
    ELSE LET p == CHOOSE q \in SentenceEnds(s) : \A r \in SentenceEnds(s) : r <= q
         IN IF s[p] = "\n" THEN p - 1 + Run(From(s, p - 1), {"\n"})
            ELSE p + Run(From(s, p), {" ", "\n"})

\* match.end() of the leftmost match, 0 when there is none; \s+ and \n+ are greedy
MatchEnd(s) ==
    IF SentenceEnds(s) = {} THEN 0
    ELSE LET p == Min(SentenceEnds(s))
         IN IF s[p] = "\n" THEN p - 1 + Run(From(s, p - 1), {"\n"})
            ELSE p + Run(From(s, p), {" ", "\n"})

\* the places q >= from where the closing marker (n asterisks) of a match
\* that opens at the head of s can stand: (.+?) holds no newline
Closers(s, n, from) ==
    { q \in from..(Len(s) - n + 1) :
        /\ \A k \in q..(q + n - 1) : s[k] = "*"
        /\ \A k \in (n + 1)..(q - 1) : s[k] # "\n" }

\* re.sub of n asterisks, (.+?), n asterisks by the group: leftmost matches,
\* the shortest group of at least one character, matches do not overlap
RECURSIVE Unmark(_, _)
Unmark(s, n) ==
    IF s = << >> THEN << >>
    ELSE IF Len(s) >= n /\ (\A k \in 1..n : s[k] = "*") /\ Closers(s, n, n + 2) # {}
         THEN LET q == Min(Closers(s, n, n + 2))
              IN SubSeq(s, n + 1, q - 1) \o Unmark(From(s, q + n - 1), n)
         ELSE << Head(s) >> \o Unmark(Tail(s), n)

\* clean_text of send_to_tts: bold markers, then italic markers, then strip()
CleanText(text) == Strip(Unmark(Unmark(text, 2), 1))

\* the messages send_to_tts(text) sends: nothing for blank text, else the
\* cleaned text and a flush
SendToTts(text) ==
    IF Strip(text) = << >> THEN << >>
    ELSE << [type |-> "Text", text |-> CleanText(text)], [type |-> "Flush", text |-> << >>] >>

\* a faulty Rest: the character after the sentence is skipped
RestSkipping(buf, end_pos) == From(buf, end_pos + 1)

\* sentence_buffer = sentence_buffer[end_pos:]
Rest(buf, end_pos) == From(buf, end_pos)

\* the "while True" loop of tts_runner on buffer buf: the sentences cut off,
\* in order, and the buffer that is left
RECURSIVE Sentences(_)
Sentences(buf) ==
    IF MatchEnd(buf) = 0 THEN [cut |-> << >>, rest |-> buf]
    ELSE LET more == Sentences(Rest(buf, MatchEnd(buf)))
         IN [cut |-> << SubSeq(buf, 1, MatchEnd(buf)) >> \o more.cut, rest |-> more.rest]

RECURSIVE SendAll(_)
SendAll(texts) == IF texts = << >> THEN << >> ELSE SendToTts(Head(texts)) \o SendAll(Tail(texts))

\* one iteration of "async for llm_chunk in self.llm.stream_complete(...)"
LlmChunk ==
    /\ runner = "streaming"
    /\ ~llm_done
    /\ chunk_count < Len(llm)
    /\ chunk_count' = chunk_count + 1
    /\ LET r == Sentences(sentence_buffer \o llm[chunk_count + 1])
       IN /\ sentence_buffer' = r.rest
          /\ cut' = cut \o r.cut
          /\ tts_msgs' = tts_msgs \o SendAll(r.cut)
    /\ UNCHANGED << sessionVars, agentVars, codecVars, hookVars, ticketVars, llm, llm_done, runner, listen >>

\* a faulty Remainder: the text left in the buffer is not sent
RemainderDropped(buf) == << >>

\* "if sentence_buffer.strip(): await send_to_tts(sentence_buffer)"
Remainder(buf) == IF Strip(buf) # << >> THEN << buf >> ELSE << >>

\* the LLM stream has ended: the remainder is sent, then Close, and the
\* runner waits for listen_task
LlmEnd ==
    /\ runner = "streaming"
    /\ ~llm_done
    /\ chunk_count = Len(llm)
    /\ llm_done' = TRUE
    /\ cut' = cut \o Remainder(sentence_buffer)
    /\ tts_msgs' = tts_msgs \o SendAll(Remainder(sentence_buffer))
                             \o << [type |-> "Close", text |-> << >>] >>
    /\ runner' = "awaitListen"
    /\ UNCHANGED << sessionVars, agentVars, codecVars, hookVars, ticketVars, llm, chunk_count, sentence_buffer, listen >>

\* the LLM stream raises in the middle of the reply: "except Exception" logs
\* the error, cancels listen_task and does not re-raise, so tts_runner leaves
\* its try block as if it had ended and the turn completes
LlmRaises ==
    /\ runner = "streaming"
    /\ ~llm_done
    /\ listen' = "cancelled"
    /\ runner' = "done"
    /\ UNCHANGED << sessionVars, agentVars, codecVars, hookVars, ticketVars, llm, chunk_count, sentence_buffer,
                    cut, tts_msgs, llm_done >>

\* the TTS service has synthesised everything it was sent before Close and
\* closes the stream: start_listening returns
ListenEnds ==
    /\ listen = "reading"
    /\ runner = "awaitListen"
    /\ listen' = "finished"
    /\ UNCHANGED << sessionVars, agentVars, codecVars, hookVars, ticketVars, llm, chunk_count, sentence_buffer,
                    cut, tts_msgs, llm_done, runner >>

\* "await listen_task" returns and tts_runner ends
RunnerResumes ==
    /\ runner = "awaitListen"
    /\ listen = "finished"
    /\ runner' = "done"
    /\ UNCHANGED << sessionVars, agentVars, codecVars, hookVars, ticketVars, llm, chunk_count, sentence_buffer,
                    cut, tts_msgs, llm_done, listen >>

\* one reply's text on its way to TTS, for every stream of Streams
InitText ==
    /\ SessionInit
    /\ HookIdle
    /\ TicketIdle
    /\ AgentIdle
    /\ CodecIdle
    /\ call.stop
    /\ now = 0
    /\ llm \in Streams
    /\ chunk_count = 0
    /\ sentence_buffer = << >>
    /\ cut = << >>
    /\ tts_msgs = << >>
    /\ llm_done = FALSE
    /\ runner = "streaming"
    /\ listen = "reading"

NextText == LlmChunk \/ LlmEnd \/ LlmRaises \/ ListenEnds \/ RunnerResumes

SpecText == InitText /\ [][NextText]_vars

(* ----------------------------- incoming_call -------------------------- *)
\* Strings are sequences of characters.
Http == << "h", "t", "t", "p" >>
Https == << "h", "t", "t", "p", "s" >>
Ngrok == << "n", "g", "r", "o", "k" >>

\* the host headers and query strings explored
Hosts == { << "a", ".", "i", "o" >>,
           << "b", ".", "c", "o", "m" >>,
           << "x", ".", "n", "g", "r", "o", "k", ".", "i", "o" >>,
           << "n", "g", "r", "o", "k", ".", "a", ".", "i", "o" >>,
           << "h", "t", "t", "p", "s", ".", "i", "o" >>,
           << "l", "o", ":", "8", "0" >> }
Queries == { << >>,
             << "q", "=", "1" >>,
             << "u", "=", "h", "t", "t", "p", "s" >>,
             << "F", "r", "o", "m", "=", "1" >>,
             << "s", "=", "h", "t", "t", "p" >> }

\* the requests explored; scheme is the scheme of request.url, which the
\* server takes from the connection or from the forwarded protocol
Requests == [host : Hosts, scheme : {Http, Https}, query : Queries]

\* "w in s" of Python for strings
IsIn(w, s) == \E k \in 0..(Len(s) - Len(w)) : SubSeq(s, k + 1, k + Len(w)) = w

\* str(request.url)
Url(r) ==
    r.scheme \o << ":", "/", "/" >> \o r.host \o << "/", "i", "n", "c", "o", "m", "i", "n", "g", "-", "c", "a", "l", "l" >>
             \o (IF r.query = << >> THEN << >> ELSE << "?" >> \o r.query)

\* protocol = "wss" if "ngrok" in host or "https" in str(request.url) else "ws"
Protocol(r) == IF IsIn(Ngrok, r.host) \/ IsIn(Https, Url(r)) THEN "wss" ELSE "ws"

\* incoming_call: the TwiML answer with its Stream url
IncomingCall ==
    /\ hook = "request"
    /\ hook' = "answered"
    /\ twiml' = [protocol |-> Protocol(request), host |-> request.host, path |-> "/ws/twilio"]
    /\ UNCHANGED << sessionVars, textVars, agentVars, codecVars, ticketVars, request >>

\* one webhook request, for every request of Requests
InitHook ==
    /\ SessionInit
    /\ call.stop
    /\ now = 0
    /\ TextIdle
    /\ AgentIdle
    /\ CodecIdle
    /\ TicketIdle
    /\ hook = "request"
    /\ request \in Requests
    /\ twiml = [protocol |-> "", host |-> << >>, path |-> ""]

NextHook == IncomingCall

SpecHook == InitHook /\ [][NextHook]_vars

(* ----------------------- create_reservation_ticket -------------------- *)
Callers == 1..MaxCallers

\* f"LOTUS-{next_num:04d}": the decimal digits of next_num, padded to four
TicketId(n) ==
    << "LOTUS-", (n \div 1000) % 10, (n \div 100) % 10, (n \div 10) % 10, n % 10 >>

\* the id of the row that "order_by(ReservationTicket.id.desc()).limit(1)" selects
LastId == tickets[CHOOSE k \in 1..Len(tickets) : \A m \in 1..Len(tickets) : tickets[m].id <= tickets[k].id].id

\* the select of call c and "next_num = 1 if not last_ticket else last_ticket.id + 1"
SelectLast(c) ==
    /\ tk[c] = "idle"
    /\ tk' = [tk EXCEPT ![c] = "selected"]
    /\ next_num' = [next_num EXCEPT ![c] = IF tickets = << >> THEN 1 ELSE LastId + 1]
    /\ UNCHANGED << sessionVars, textVars, agentVars, codecVars, hookVars, tickets >>

\* ticket_id is declared unique: the insert of a row whose ticket_id is in
\* the table already fails
Collides(c) == \E k \in 1..Len(tickets) : tickets[k].ticket_id = TicketId(next_num[c])

\* session.add(ticket) and "await session.commit()" of call c: the database
\* gives the row the next primary key, or the commit raises IntegrityError
\* and the call fails
Commit(c) ==
    /\ tk[c] = "selected"
    /\ IF Collides(c)
       THEN /\ tk' = [tk EXCEPT ![c] = "failed"]
            /\ UNCHANGED tickets
       ELSE /\ tk' = [tk EXCEPT ![c] = "done"]
            /\ tickets' = Append(tickets, [id |-> IF tickets = << >> THEN 1 ELSE LastId + 1,
                                           ticket_id |-> TicketId(next_num[c])])
    /\ UNCHANGED << sessionVars, textVars, agentVars, codecVars, hookVars, next_num >>

\* MaxCallers calls on an empty table, in every order and overlap
InitTicket ==
    /\ SessionInit
    /\ call.stop
    /\ now = 0
    /\ TextIdle
    /\ AgentIdle
    /\ CodecIdle
    /\ HookIdle
    /\ tickets = << >>
    /\ tk = [c \in Callers |-> "idle"]
    /\ next_num = [c \in Callers |-> 0]

NextTicket == \E c \in Callers : SelectLast(c) \/ Commit(c)

SpecTicket == InitTicket /\ [][NextTicket]_vars

(* -------------------- ReservationAgent.process ------------------------ *)
\* the tools declared to the model (TOOLS) that the model of this development
\* calls, and the registries explored: every tool registered, or one only
ToolNames == {"query_room_inventory", "check_ticket_status"}
Registries == { {"query_room_inventory", "create_reservation_ticket", "check_ticket_status"},
                {"query_room_inventory"} }

\* the arguments text of a function_call item: JSON, or text that is not JSON
ArgTexts == {"json", "garbage"}

\* what the items of a model response can be, and the responses explored:
\* up to MaxItems items, each a message or a call of a declared tool
Kinds == { << "message", "" >> } \cup (ToolNames \X ArgTexts)
Shapes == UNION { [1..n -> Kinds] : n \in 1..MaxItems }

\* the response of shape sh to the request number round: call ids are unique
ResponseOutput(round, sh) ==
    [k \in 1..Len(sh) |->
        [type |-> IF sh[k][1] = "message" THEN "message" ELSE "function_call",
         call_id |-> << round, k >>,
         name |-> sh[k][1],
         arguments |-> sh[k][2]]]

\* [item for item in response.output if item.type == "function_call"]
FunctionCalls(r) == SelectSeq(r, LAMBDA item : item.type = "function_call")

\* response.output_text: the text of the message items
OutputText(r) == SelectSeq(r, LAMBDA item : item.type = "message")

\* json.dumps(value): the JSON text of value
JsonDumps(value) == << "json", value >>

\* the item process echoes for a function_call item of the response (items
\* of continuation_input have no output, or no name and arguments: "")
Echo(item) == [type |-> "function_call", call_id |-> item.call_id, name |-> item.name,
               arguments |-> item.arguments, output |-> ""]

\* continuation_input after the loop over response.output
Echoes(r) == [k \in 1..Len(FunctionCalls(r)) |-> Echo(FunctionCalls(r)[k])]

\* how the call of a tool ends: the handler returns (ok) or raises (raised),
\* or no handler is registered under the name (missing)
Ends(name) == IF name \in tools THEN {"ok", "raised"} ELSE {"missing"}

\* a faulty ResultJson: the failure of a handler is reported as its result
ResultJsonHidingFailure(name, end) ==
    IF end = "missing" THEN JsonDumps([error |-> << "Tool", name, "not available" >>])
    ELSE JsonDumps([result |-> name])

\* result_json: the encoded result, or the encoded error of a handler that
\* raised (str(e)) or is not registered
ResultJson(name, end) ==
    IF end = "ok" THEN JsonDumps([result |-> name])
    ELSE IF end = "raised" THEN JsonDumps([error |-> << "str(e)", name >>])
    ELSE JsonDumps([error |-> << "Tool", name, "not available" >>])

\* a faulty CallOutput: every output carries the call_id of the first call
CallOutputFirstId(call_item, result_json) ==
    [type |-> "function_call_output", call_id |-> << call_item.call_id[1], 1 >>,
     name |-> "", arguments |-> "", output |-> result_json]

\* the function_call_output item appended for a call
CallOutput(call_item, result_json) ==
    [type |-> "function_call_output", call_id |-> call_item.call_id, name |-> "",
     arguments |-> "", output |-> result_json]

\* the calls of response executed so far
Executed == Len(outcomes)

\* process up to the first "await responses.create(input=input_list)"
AgentProcess ==
    /\ agent = "idle"
    /\ agent' = "awaitModel"
    /\ requests' = Append(requests, << "input_list" >>)
    /\ UNCHANGED << sessionVars, textVars, codecVars, hookVars, ticketVars, tools, response, final_response,
                    continuation_input, outcomes, output_text >>

\* the model answers the first request: without function calls process
\* returns output_text, else it echoes the calls and starts the first handler
ModelResponds ==
    /\ agent = "awaitModel"
    /\ \E sh \in Shapes :
        LET r == ResponseOutput(1, sh)
        IN /\ response' = r
           /\ IF FunctionCalls(r) = << >>
              THEN /\ agent' = "returned"
                   /\ output_text' = OutputText(r)
                   /\ UNCHANGED continuation_input
              ELSE /\ agent' = "tools"
                   /\ continuation_input' = Echoes(r)
                   /\ UNCHANGED output_text
    /\ UNCHANGED << sessionVars, textVars, codecVars, hookVars, ticketVars, tools, final_response, outcomes, requests >>

\* json.loads(call.arguments) raises on text that is not JSON
ArgumentsParse(call_item) == call_item.arguments = "json"

\* one iteration of "for call in function_calls": json.loads of the arguments
\* (its failure ends process with the exception); the handler has returned or
\* raised, or is missing; the output item is appended; after the last call
\* the continuation request is made
ExecuteTool ==
    /\ agent = "tools"
    /\ LET call_item == FunctionCalls(response)[Executed + 1]
       IN IF ~ArgumentsParse(call_item)
          THEN /\ agent' = "raised"
               /\ UNCHANGED << outcomes, continuation_input, requests >>
          ELSE \E end \in Ends(call_item.name) :
                /\ outcomes' = Append(outcomes, end)
                /\ continuation_input' =
                       Append(continuation_input,
                              CallOutput(call_item, ResultJson(call_item.name, end)))
                /\ IF Executed + 1 = Len(FunctionCalls(response))
                   THEN /\ agent' = "awaitFinal"
                        /\ requests' = Append(requests, continuation_input')
                   ELSE UNCHANGED << agent, requests >>
    /\ UNCHANGED << sessionVars, textVars, codecVars, hookVars, ticketVars, tools, response, final_response, output_text >>

\* the model answers the continuation request: process returns
\* final_response.output_text
FinalResponds ==
    /\ agent = "awaitFinal"
    /\ \E sh \in Shapes :
        /\ final_response' = ResponseOutput(2, sh)
        /\ output_text' = OutputText(ResponseOutput(2, sh))
    /\ agent' = "returned"
    /\ UNCHANGED << sessionVars, textVars, codecVars, hookVars, ticketVars, tools, response, continuation_input, outcomes,
                    requests >>

\* one call of process, for every registry of Registries
InitAgent ==
    /\ SessionInit
    /\ HookIdle
    /\ TicketIdle
    /\ call.stop
    /\ now = 0
    /\ TextIdle
    /\ CodecIdle
    /\ agent = "idle"
    /\ tools \in Registries
    /\ response = << >>
    /\ final_response = << >>
    /\ continuation_input = << >>
    /\ outcomes = << >>
    /\ requests = << >>
    /\ output_text = << >>

NextAgent == AgentProcess \/ ModelResponds \/ ExecuteTool \/ FinalResponds

SpecAgent == InitAgent /\ [][NextAgent]_vars

(* --------------------------- mu-law codec ----------------------------- *)
\* the values of an int16 sample
Samples == -(2^15)..(2^15 - 1)

Abs(x) == IF x < 0 THEN -x ELSE x

\* np.clip(x, lo, hi)
Clip(x, lo, hi) == IF x < lo THEN lo ELSE IF x > hi THEN hi ELSE x

\* x.astype(np.int16): the low 16 bits, as a signed number
Int16(x) == ((x + 2^15) % 2^16) - 2^15

\* the bias _mulaw_encode adds and the bias _mulaw_decode removes
EncodeBias == 33
DecodeBias == 132

\* |pcm| + bias, clipped to 0..32767
Biased(x) == Clip(Abs(x) + EncodeBias, 0, 2^15 - 1)

\* the loop "for i in range(7, -1, -1)" from i downwards, with exponent so far
RECURSIVE ExponentLoop(_, _, _)
ExponentLoop(b, i, exponent) ==
    IF i < 0 THEN exponent
    ELSE ExponentLoop(b, i - 1, IF b >= 2^(i + 7) /\ exponent = 0 THEN i ELSE exponent)

Exponent(b) == ExponentLoop(b, 7, 0)

\* (pcm >> (exponent + 3)) & 0x0F
Mantissa(b) == (b \div 2^(Exponent(b) + 3)) % 16

\* _mulaw_encode of one sample: sign, exponent and mantissa, all bits inverted
MulawEncodeByte(x) ==
    255 - ((IF x < 0 THEN 1 ELSE 0) * 128 + Exponent(Biased(x)) * 16 + Mantissa(Biased(x)))

\* the fields of a byte after the inversion "~mulaw & 0xFF"
SignOf(byte) == (255 - byte) \div 128
ExponentOf(byte) == ((255 - byte) % 128) \div 16
MantissaOf(byte) == (255 - byte) % 16

\* _mulaw_decode of one byte
MulawDecodeByte(byte) ==
    LET magnitude == (MantissaOf(byte) * 8 + DecodeBias) * 2^ExponentOf(byte) - DecodeBias
    IN Int16(IF SignOf(byte) = 0 THEN magnitude ELSE -magnitude)

MulawEncode ==
    /\ codec = "sample"
    /\ codec' = "encoded"
    /\ mulaw' = MulawEncodeByte(pcm)
    /\ UNCHANGED << sessionVars, textVars, agentVars, hookVars, ticketVars, pcm, linear, recoded >>

MulawDecode ==
    /\ codec = "encoded"
    /\ codec' = "decoded"
    /\ linear' = MulawDecodeByte(mulaw)
    /\ UNCHANGED << sessionVars, textVars, agentVars, hookVars, ticketVars, pcm, mulaw, recoded >>

\* the mu-law bytes
Bytes == 0..255

\* _mulaw_decode of a byte received
DecodeReceived ==
    /\ codec = "byte"
    /\ codec' = "linear"
    /\ linear' = MulawDecodeByte(mulaw)
    /\ UNCHANGED << sessionVars, textVars, agentVars, hookVars, ticketVars, pcm, mulaw, recoded >>

\* _mulaw_encode of the decoded sample
Reencode ==
    /\ codec = "linear"
    /\ codec' = "recoded"
    /\ recoded' = MulawEncodeByte(linear)
    /\ UNCHANGED << sessionVars, textVars, agentVars, hookVars, ticketVars, pcm, mulaw, linear >>

\* the round trip of one sample, for every int16 sample, and the round trip
\* of one byte, for every byte
InitCodec ==
    /\ SessionInit
    /\ HookIdle
    /\ TicketIdle
    /\ call.stop
    /\ now = 0
    /\ TextIdle
    /\ AgentIdle
    /\ \/ codec = "sample" /\ pcm \in Samples /\ mulaw = 0
       \/ codec = "byte" /\ pcm = 0 /\ mulaw \in Bytes
    /\ linear = 0
    /\ recoded = 0

NextCodec == MulawEncode \/ MulawDecode \/ DecodeReceived \/ Reencode

SpecCodec == InitCodec /\ [][NextCodec]_vars

(* ============================ properties ============================== *)
TurnFrames == { k \in 1..Len(wire) : wire[k].kind = "media" /\ wire[k].turn # None }
Clears == { k \in 1..Len(wire) : wire[k].kind = "clear" }
\* frames that turn handlers dropped as stale
DroppedFrames == frames - Cardinality(TurnFrames)
OpenTtsStreams == Cardinality({ i \in Tasks : tts[i] \in TtsOpen })
                  + (IF greet = "open" THEN 1 ELSE 0)

\* C1 - No stale audio: every frame a turn's audio handler forwards to
\* send_audio carries a tag equal to speak_epoch at the moment of the send;
\* a frame with another tag is dropped.
NoStaleAudio ==
    \A k \in TurnFrames : wire[k].tag = wire[k].epoch

\* C1 witness: a turn handler has dropped a stale frame and has forwarded another
NoStaleAudioWitness ==
    /\ DroppedFrames > 0
    /\ TurnFrames # {}

\* C3 (as claimed) - the epoch a turn's handler compares against is the value
\* speak_epoch took right after that turn's own increment.
CapturedOwnEpoch ==
    \A i \in Tasks : tts[i] \in TtsOpen => current_epoch[i] = my_epoch[i]

\* C4 (as claimed) - at most one turn task is processing or speaking.
AtMostOneTurn == Cardinality(Running) <= 1

\* C5 (as claimed) - at most one TTS stream is open at every instant.
OneTtsStream == OpenTtsStreams <= 1

\* C6 (as claimed) - late reply wins: once a turn has been started for a newer
\* EndOfTurn every earlier turn is over, and only the newest turn sends audio.
LateReplyWins ==
    /\ \A i \in Running : i = Latest
    /\ \A k \in TurnFrames : wire[k].turn = wire[k].latest

\* C7 (as claimed) - speaking implies a TTS task reference, listening implies none.
StateMatchesTtsTask ==
    /\ state = "speaking" => tts_task # None
    /\ state = "listening" => tts_task = None

\* the transitions of the state table
Table ==
    { << "idle", "listening" >>, << "listening", "processing" >>,
      << "processing", "speaking" >>, << "speaking", "listening" >> }

\* C8 (as claimed) - state legality: every change of state is in the table.
StateLegality == seen \subseteq Table

\* C10 (as claimed) - conversation stability: once assigned, conversation_id
\* never changes.
ConversationStable ==
    [][conversation_id # None => conversation_id' = conversation_id]_vars

\* C8 (amended) - as long as no two turn tasks have run at once, every change
\* of state is in the table or is the return processing -> listening of a turn
\* that fails or is cancelled before it speaks; overlapping turns add
\* speaking -> processing and listening -> speaking, and nothing else.
StateLegalityAmended ==
    /\ ~overlapped => seen \subseteq Table \cup { << "processing", "listening" >> }
    /\ seen \subseteq Table \cup { << "processing", "listening" >>,
                                  << "speaking", "processing" >>,
                                  << "listening", "speaking" >> }

\* C8 witness: a turn failed while it created the conversation and the
\* state went from processing back to listening
StateLegalityWitness ==
    /\ << "processing", "listening" >> \in seen
    /\ \E i \in Tasks : turn[i] = "failed" /\ my_epoch[i] = 0

\* C2 - every "clear" precedes all further media: no turn frame tagged with
\* the pre-interrupt epoch (or an older one) is written after the clear.
ClearPrecedesMedia ==
    \A k \in Clears : \A m \in TurnFrames : m > k => wire[m].tag > wire[k].epoch

\* C2 - the interrupt handler acts in the order: increment speak_epoch and
\* send clear, then cancel the TTS task and await it, then state = listening.
InterruptOrder ==
    \A j \in Handlers :
      /\ (ih[j] = "ready" /\ ih'[j] = "awaitClear") =>
            /\ speak_epoch' = speak_epoch + 1
            /\ wire' = Append(wire, Clear)
            /\ state' = state
            /\ tts_cancel' = tts_cancel
      /\ (ih[j] = "awaitClear" /\ ih'[j] = "awaitTts") =>
            /\ tts_cancel'[tts_task]
            /\ state' = state
            /\ wire' = wire
            /\ speak_epoch' = speak_epoch
      /\ (ih[j] = "awaitTts" /\ ih'[j] # "awaitTts") =>
            /\ TaskDone(tts[ih_wait[j]])
      /\ (ih[j] \in {"awaitClear", "awaitTts"} /\ ih'[j] = "done") =>
            /\ state' = "listening"
            /\ wire' = wire
            /\ speak_epoch' = speak_epoch

\* no frame of a reply that was speaking when an interrupt ran is written
\* after the interrupt's clear
ClearSilencesReply ==
    \A k \in Clears : \A m \in TurnFrames :
        m > k => my_epoch[wire[m].turn] > wire[k].epoch

\* C2 (as claimed) - clear is emitted before any further media, no media of
\* the interrupted reply follows the clear, and the interrupt's actions occur
\* in the order: increment, clear, cancel and await the TTS task, listening.
ClearBeforeMedia ==
    /\ []ClearPrecedesMedia
    /\ []ClearSilencesReply
    /\ [][InterruptOrder]_vars

\* C2 witness: an interrupt has run to its end (clear sent, TTS task cancelled
\* and awaited) and a turn frame has been written after its clear
ClearBeforeMediaWitness ==
    /\ \E j \in Handlers : ih[j] = "done" /\ ih_wait[j] # None
    /\ \E k \in Clears : \E m \in TurnFrames : m > k
    /\ \E k \in Clears : \E m \in TurnFrames : m < k

\* C9 - speak_epoch changes only by +1, on every entry of a turn into
\* speaking and on every executed interrupt.
EpochStep ==
    LET entered == { i \in Tasks : turn[i] # "awaitTts" /\ turn'[i] = "awaitTts" }
        executed == { j \in Handlers : ih[j] = "ready" /\ ih'[j] = "awaitClear" }
    IN  /\ speak_epoch' = speak_epoch + Cardinality(entered) + Cardinality(executed)
        /\ entered # {} => state' = "speaking"
        /\ (state' = "speaking" /\ state # "speaking") => entered # {}

EpochMonotone == [][EpochStep]_vars

\* C9 witness: a turn has entered speaking after an executed interrupt
EpochMonotoneWitness ==
    \E j \in Handlers : \E i \in Tasks :
        ih_epoch[j] # 0 /\ my_epoch[i] = ih_epoch[j] + 1

\* the phases of a call in which the session is open: from the return of
\* __aenter__ to the end of __aexit__
SessionOpen == session \in {"entered", "greeting", "running", "closing"}

\* stt_open changes only when __aenter__ opens the stream and when __aexit__
\* closes it
SttStep ==
    stt_open' # stt_open =>
        \/ session = "constructed" /\ session' = "entered"
        \/ session = "closing" /\ session' = "closed"

Launched == { j \in Handlers : ih[j] = "none" /\ ih'[j] # "none" }

\* the time of the last launch is kept, and a launch comes no sooner than the
\* debounce interval after it
DebounceStep ==
    /\ Launched # {} => /\ (now - last_interrupt) * TickMs >= DebounceMs
                        /\ last_interrupt' = now
    /\ Launched = {} => last_interrupt' = last_interrupt

\* C12 - interrupt debounce: no two interrupts fire within 400 ms of each
\* other; a trigger less than 400 ms after the previous interrupt is ignored.
InterruptDebounce == [][DebounceStep]_vars

\* C12 witness: a second interrupt has fired, a debounce interval or more
\* after the first
InterruptDebounceWitness ==
    /\ \A j \in Handlers : ih[j] # "none"
    /\ Cardinality(Handlers) >= 2
    /\ last_interrupt * TickMs >= 2 * DebounceMs

\* C13 (as claimed) - barge-in latch: while the latch is armed no trigger
\* launches an interrupt, and an armed latch is released by nothing but the
\* EndOfTurn branch of on_stt_message, which schedules an on_turn_end task.
LatchStep ==
    /\ barge_in_latched => Launched = {}
    /\ (barge_in_latched /\ ~barge_in_latched') =>
            \E i \in Tasks : ote[i] = "none" /\ ote'[i] = "ready"

BargeInLatch == [][LatchStep]_vars

\* the turns that enter speaking in a step
EnteredSpeaking == { i \in Tasks : turn[i] # "awaitTts" /\ turn'[i] = "awaitTts" }

\* C13 (amended) - while the latch is armed no trigger launches an interrupt;
\* an armed latch is released only by an EndOfTurn event with text or by a
\* turn that enters speaking (process_llm_and_tts clears the latch), also a
\* turn whose EndOfTurn was received before the arming.
LatchStepAmended ==
    /\ barge_in_latched => Launched = {}
    /\ (barge_in_latched /\ ~barge_in_latched') =>
            \/ \E i \in Tasks : ote[i] = "none" /\ ote'[i] = "ready"
            \/ EnteredSpeaking # {}
    /\ Launched # {} => barge_in_latched'

BargeInLatchAmended == [][LatchStepAmended]_vars

\* C13 witness: the latch is armed and it alone holds back a trigger: the
\* interrupt is still at work on a speaking reply and the debounce interval
\* has passed
BargeInLatchWitness ==
    /\ barge_in_latched
    /\ state = "speaking"
    /\ \E j \in Handlers : ih[j] \in {"awaitClear", "awaitTts"}
    /\ (now - last_interrupt) * TickMs >= DebounceMs

\* the number of non-whitespace characters of a transcript
NonWhitespace(t) == Cardinality({ k \in 1..Len(t) : t[k] # " " })

\* the transcript in the reason of a handler that an Update launched
UpdateText(j) == Tail(ih_reason'[j])

\* C14 (as claimed) - an interrupt is launched only while state is speaking,
\* and by an Update only if its text has at least 4 non-whitespace characters.
UpdateStep ==
    \A j \in Launched :
        /\ state = "speaking"
        /\ \/ ih_reason'[j] = << "StartOfTurn" >>
           \/ /\ Head(ih_reason'[j]) = "Update:"
              /\ NonWhitespace(UpdateText(j)) >= UpdateInterruptMinChars

UpdateFourNonWhitespace == [][UpdateStep]_vars

\* C14 (amended) - an interrupt is launched only while state is speaking, and
\* by an Update only if its text, without leading and trailing whitespace, has
\* at least 4 characters (whitespace inside the text counts).
UpdateStepAmended ==
    \A j \in Launched :
        /\ state = "speaking"
        /\ \/ ih_reason'[j] = << "StartOfTurn" >>
           \/ /\ Head(ih_reason'[j]) = "Update:"
              /\ Len(UpdateText(j)) >= UpdateInterruptMinChars
              /\ Head(UpdateText(j)) # " "
              /\ UpdateText(j)[Len(UpdateText(j))] # " "

UpdateFourStripped == [][UpdateStepAmended]_vars

\* C14 witness: an Update whose stripped text has 4 characters, one of them a
\* space, has launched an interrupt
UpdateFourStrippedWitness ==
    \E j \in Handlers :
        /\ ih[j] # "none"
        /\ ih_reason[j] = << "Update:", "a", " ", "b", "c" >>

\* the tts_runner tasks that have not ended
TtsRunning == { i \in Tasks : tts[i] \in {"connecting"} \cup TtsOpen }

\* C15 (as claimed) - teardown: once the session has exited no turn task and
\* no TTS task is running, no TTS stream is open and the STT stream is closed.
TeardownClean ==
    session = "closed" =>
        /\ Running = {}
        /\ TtsRunning = {}
        /\ OpenTtsStreams = 0
        /\ stt_open = 0

\* the turns that end in a step after they have begun to run
TurnEnded == { i \in Running : turn'[i] \in TaskOver }

\* C16 - an error fails only the current turn: when a turn ends, by an error
\* of the LLM or of the TTS stream as by any other cause, state returns to
\* listening and the session and its STT stream stay as they are; the failed
\* turn does not count as running for the next EndOfTurn.
TurnEndStep ==
    TurnEnded # {} =>
        /\ state' = "listening"
        /\ session' = session
        /\ stt_open' = stt_open

FailureIsLocal ==
    /\ [][TurnEndStep]_vars
    /\ [](\A i \in Tasks : turn[i] = "failed" /\ turn_task = i => ~PreviousTurnRunning)

\* C16 witness: a turn has failed and the turn of the next EndOfTurn has
\* entered speaking in the same session
FailureIsLocalWitness ==
    /\ session = "running"
    /\ stt_open = 1
    /\ \E i \in Tasks : \E k \in Tasks :
          /\ turn[i] = "failed"
          /\ k > i
          /\ turn[k] = "awaitTts"
          /\ tts[k] \in TtsOpen

\* the STT stream has reported no event that the session acted on
CallerSilent ==
    /\ \A i \in Tasks : ote[i] = "none"
    /\ \A j \in Handlers : ih[j] = "none"

\* C17 (as claimed) - while the caller is silent the session writes no
\* outbound media message.
SilentNoMedia ==
    CallerSilent => \A k \in 1..Len(wire) : wire[k].kind # "media"

\* C18 (as claimed) - when the first message is not "start" the connection is
\* rejected: no session is created and no STT stream is opened for it.
FirstMessageRejects ==
    prestart > 0 => /\ session \in {"accepted", "gone"}
                    /\ stt_open = 0

\* no barge-in trigger was accepted and every EndOfTurn found the previous
\* turn over: no interrupt handler was launched and no turn was cancelled
Uninterrupted ==
    /\ \A j \in Handlers : ih[j] = "none"
    /\ \A i \in Tasks : ~turn_cancel[i]

\* the turns that have entered speaking
Spoke == { i \in Tasks : my_epoch[i] # 0 }

\* C19 - uninterrupted turns: every turn that speaks increments speak_epoch
\* exactly once, so the turns use distinct epochs; no clear is written; every
\* audio frame of every reply is forwarded; state is listening again whenever
\* no turn is running.
UninterruptedTurns ==
    Uninterrupted =>
        /\ speak_epoch = Cardinality(Spoke)
        /\ \A i \in Spoke : \A k \in Spoke : i # k => my_epoch[i] # my_epoch[k]
        /\ \A i \in Spoke : tts[i] \in TtsOpen => current_epoch[i] = my_epoch[i]
        /\ Clears = {}
        /\ DroppedFrames = 0
        /\ (SessionOpen /\ Running = {}) => state = "listening"
        /\ Running # {} => state \in {"processing", "speaking"}

\* C19 witness: two uninterrupted turns have drained one after the other and
\* their audio frames were forwarded
UninterruptedTurnsWitness ==
    /\ Uninterrupted
    /\ Cardinality({ i \in Tasks : turn[i] = "done" }) >= 2
    /\ speak_epoch >= 2
    /\ Cardinality(TurnFrames) >= 2
    /\ \E k \in TurnFrames : wire[k].tag = 1
    /\ \E k \in TurnFrames : wire[k].tag = 2

\* the barge-in scenario up to the interrupt: the first reply, speaking with
\* epoch 1, was interrupted once, by an Update, and nothing else interrupted
\* or followed but at most one more EndOfTurn
InterruptedOnce ==
    /\ my_epoch[1] = 1
    /\ Cardinality(Clears) = 1
    /\ \A k \in Clears : wire[k].epoch = 1
    /\ ih_reason[1] # << >>
    /\ Head(ih_reason[1]) = "Update:"
    /\ \A j \in Handlers : j > 1 => ih[j] = "none"
    /\ \A i \in Tasks : i > 2 => ote[i] = "none"

\* the fresh turn of the following EndOfTurn has begun its reply
FreshTurnSpeaks == my_epoch[2] # 0

\* C20 (as claimed) - in the barge-in scenario, when the EndOfTurn after the
\* interrupt has begun a fresh turn, speak_epoch has advanced by exactly 2.
BargeInEpochTwo ==
    (InterruptedOnce /\ FreshTurnSpeaks) => speak_epoch = 2

\* C20 (amended) - in the barge-in scenario speak_epoch has advanced by
\* exactly 2 once the interrupt has executed, and by exactly 3 once the fresh
\* turn has entered speaking.
BargeInEpochs ==
    InterruptedOnce => speak_epoch = IF FreshTurnSpeaks THEN 3 ELSE 2

\* C20 witness: the interrupted reply is over, the interrupt is done and the
\* fresh turn is speaking
BargeInEpochsWitness ==
    /\ InterruptedOnce
    /\ ih[1] = "done"
    /\ turn[1] \in TaskOver
    /\ turn[2] = "awaitTts"
    /\ state = "speaking"
\* the "media" messages of turn i's reply on the wire, in the order written
ReplyFrames(i) == SelectSeq(wire, LAMBDA m : m.kind = "media" /\ m.turn = i)

\* reply i was not interrupted: no barge-in interrupt found it speaking (no
\* clear was written at its epoch) and nothing cancelled its turn or its TTS task
NonInterrupted(i) ==
    /\ my_epoch[i] # 0
    /\ ~turn_cancel[i]
    /\ ~tts_cancel[i]
    /\ \A k \in Clears : wire[k].epoch # my_epoch[i]

\* C21 (as claimed) - during a non-interrupted reply the frames received from
\* the TTS stream are written to the telephony WebSocket as "media" messages
\* in the order they were synthesized, each exactly once: the n-th message of
\* the reply carries the n-th frame, and every frame received was written.
FramesInSynthesisOrder ==
    \A i \in Tasks : NonInterrupted(i) =>
        /\ Len(ReplyFrames(i)) = audio_chunk_count[i]
        /\ \A n \in 1..Len(ReplyFrames(i)) : ReplyFrames(i)[n].frame = n

\* C21, the order alone: the frames of any reply that are written are written
\* in increasing order of synthesis, none twice
FramesOrdered ==
    \A i \in Tasks : \A n \in 1..Len(ReplyFrames(i)) : \A m \in 1..Len(ReplyFrames(i)) :
        n < m => ReplyFrames(i)[n].frame < ReplyFrames(i)[m].frame

\* C21, without overlapping turns
FramesInSynthesisOrderAlone == ~overlapped => FramesInSynthesisOrder
\* C22 - every inbound "media" message read after "start" is sent to the STT
\* stream exactly once and in the order read: the chunks sent to STT are the
\* messages 1, 2, ... read so far, whatever the turns and interrupt handlers do.
InboundInOrder ==
    /\ Len(stt_media) = inbound
    /\ \A n \in 1..inbound : stt_media[n].chunk = n

\* C22 witness: the media of the call have reached STT in the middle of the
\* turns' activity: one chunk while a reply was speaking, the next after an
\* interrupt handler had set state back to listening
InboundInOrderWitness ==
    /\ inbound = MaxMedia
    /\ stt_media[1].during = "speaking"
    /\ stt_media[MaxMedia].during = "listening"
    /\ \E j \in Handlers : ih[j] = "done" /\ ih_epoch[j] # 0
\* the text of the stream consumed so far, and the part of it still buffered
Consumed == Concat(SubSeq(llm, 1, chunk_count))
Pending == IF llm_done /\ Strip(sentence_buffer) # << >> THEN << >> ELSE sentence_buffer

\* text without its asterisks, then without the whitespace at its edges
RECURSIVE NoStars(_)
NoStars(s) ==
    IF s = << >> THEN << >>
    ELSE IF Head(s) = "*" THEN NoStars(Tail(s)) ELSE << Head(s) >> \o NoStars(Tail(s))
Core(s) == Strip(NoStars(s))

\* the texts sent to TTS, and the cut texts that are not blank, both in order
Fragments == SelectSeq(tts_msgs, LAMBDA m : m.type = "Text")
Spoken == SelectSeq(cut, LAMBDA c : Strip(c) # << >>)

\* C23 - the texts sent to TTS follow the order of the LLM deltas and carry
\* the whole reply: the sentences cut so far, one after the other, followed by
\* the buffer are exactly the deltas consumed; every sentence that is not
\* blank is sent as one fragment, equal to it up to asterisks and whitespace
\* at its edges, and is followed by a flush; once the stream has ended no
\* text is left in the buffer.
TextPreserved ==
    /\ Concat(cut) \o Pending = Consumed
    /\ Len(Fragments) = Len(Spoken)
    /\ \A k \in 1..Len(Fragments) : Core(Fragments[k].text) = Core(Spoken[k])
    /\ \A k \in 1..Len(tts_msgs) :
          tts_msgs[k].type = "Text" => k < Len(tts_msgs) /\ tts_msgs[k + 1].type = "Flush"
    /\ llm_done => Strip(Pending) = << >>

\* C23 witness: a stream has ended whose text was cut inside a delta and
\* across deltas, lost markers, and left a remainder that was sent at the end
TextPreservedWitness ==
    /\ llm_done
    /\ Len(Fragments) >= 3
    /\ Strip(sentence_buffer) # << >>
    /\ \E k \in 1..Len(Fragments) :
          /\ Len(NoStars(Spoken[k])) < Len(Spoken[k])
          /\ NoStars(Fragments[k].text) = Fragments[k].text
\* the model response process received last
LatestResponse == IF final_response # << >> THEN final_response ELSE response

\* the call ids for which a function_call_output was built
Answered == { continuation_input[k].call_id :
                k \in { n \in 1..Len(continuation_input) :
                          continuation_input[n].type = "function_call_output" } }

\* C24 (as claimed) - process never returns while the latest model response
\* holds a function_call that was not executed: the tool loop repeats until
\* the model answers in plain text.
ToolLoopCompletes ==
    agent = "returned" =>
        \A k \in 1..Len(FunctionCalls(LatestResponse)) :
            FunctionCalls(LatestResponse)[k].call_id \in Answered
\* the function_call_output item built for the k-th executed call
OutputOf(k) == continuation_input[Len(FunctionCalls(response)) + k]

\* result_json is the JSON text of an object with the one key "error"
IsErrorJson(text) ==
    /\ text[1] = "json"
    /\ DOMAIN text[2] = {"error"}

Places(input, type) == { n \in 1..Len(input) : input[n].type = type }

\* C26 - the continuation input sent after a model response holds, for every
\* function_call item of the response, exactly one echoed function_call and
\* exactly one function_call_output with its call_id, nothing else, and every
\* echoed call stands before every output: one call, one output.
ContinuationMatchesCalls ==
    Len(requests) = 2 =>
        LET input == requests[2]
            calls == FunctionCalls(response)
        IN /\ \A k \in 1..Len(calls) :
                /\ Cardinality({ n \in Places(input, "function_call_output") :
                                    input[n].call_id = calls[k].call_id }) = 1
                /\ Cardinality({ n \in Places(input, "function_call") :
                                    input[n].call_id = calls[k].call_id }) = 1
           /\ Cardinality(Places(input, "function_call_output")) = Len(calls)
           /\ Len(input) = 2 * Len(calls)
           /\ \A n \in Places(input, "function_call") :
                \A m \in Places(input, "function_call_output") : n < m

\* C26 witness: the continuation request of a response with a message and a
\* call was made, with one output; so was that of a response with two calls
ContinuationMatchesCallsWitness ==
    /\ Len(requests) = 2
    /\ Len(FunctionCalls(response)) = 1
    /\ Len(response) = 2
    /\ Cardinality(Places(requests[2], "function_call_output")) = 1

ContinuationOfTwoCalls ==
    /\ Len(requests) = 2
    /\ Len(FunctionCalls(response)) = 2
\* the quantization step of the segment with exponent e, and the samples
\* the encoder clips at the top of the range
Step(e) == 8 * 2^e
Clipped(x) == Abs(x) + EncodeBias > 2^15 - 1

\* C27 (as claimed) - the round trip of a sample through _mulaw_encode and
\* _mulaw_decode gives a value within half the quantization step of the
\* sample's segment, but for the samples clipped at the top of the range.
RoundTripWithinHalfStep ==
    (codec = "decoded" /\ ~Clipped(pcm)) =>
        2 * Abs(linear - pcm) <= Step(ExponentOf(mulaw))

\* C27, the offset: encoder and decoder disagree on the bias, and the round
\* trip of a sample whose biased magnitude has reached the first segment
\* boundary is off by the difference of the two, to half a step
RoundTripOffset ==
    (codec = "decoded" /\ ~Clipped(pcm) /\ Biased(pcm) >= 2^7) =>
        2 * Abs(Abs(pcm) - Abs(linear) - (DecodeBias - EncodeBias)) <= Step(ExponentOf(mulaw))
\* the turns that entered speaking after handler j had invalidated the reply
\* it interrupted: their epoch is newer than the handler's
NewerTurns(j) == { k \in Tasks : turn[k] \in {"awaitConv", "awaitTts"} /\ my_epoch[k] > ih_epoch[j] }

\* handler j goes on after one of its awaits
HandlerResumes(j) == ih[j] \in {"awaitClear", "awaitTts"} /\ ih'[j] # ih[j]

\* C28 (as claimed) - an interrupt affects only the reply it was launched
\* against: when the handler resumes from an await and a newer turn has
\* started meanwhile, it neither cancels that turn's TTS task nor sets state
\* to listening while that turn is processing or speaking.
InterruptStep ==
    \A j \in Handlers : HandlerResumes(j) =>
        \A k \in NewerTurns(j) :
            /\ tts_cancel'[k] = tts_cancel[k]
            /\ (turn'[k] = turn[k] /\ state # "listening") => state' # "listening"
InterruptAffectsOnlyItsReply == [][InterruptStep]_vars
\* an interrupt is launched against reply i, which is speaking: its handler
\* was created while i was the current reply and has not run yet
InterruptPending(i) ==
    /\ state = "speaking"
    /\ tts_task = i
    /\ \E j \in Handlers : ih[j] = "ready" /\ ih_target[j] = i

\* the session has recovered from reply i: state is listening and the reply's
\* tts_runner, which consumes the LLM stream and feeds TTS, has terminated
Recovered(i) ==
    /\ state = "listening"
    /\ TaskDone(tts[i])

\* C29 (as claimed) - barge-in recovery: once an interrupt is launched against a speaking
\* reply, the session reaches state listening with the reply's TTS task
\* terminated, provided the send of clear and the cancellation complete, and
\* whether or not the reply would ever have drained.
BargeInRecovery ==
    \A i \in Tasks : InterruptPending(i) ~> Recovered(i)
\* C30 (as claimed) - no session before "start": as long as no "start"
\* message has been received no session is created, no STT stream is opened
\* and no greeting is sent.
StartBeforeSession ==
    start_data = "None" =>
        /\ session \in {"accepted", "gone"}
        /\ stt_open = 0
        /\ greet = "none"

\* C30, the greeting alone: without a "start" message no greeting is sent
StartBeforeGreeting ==
    start_data = "None" => greet = "none" /\ wire = << >>
\* the Close messages sent on the TTS connection
Closes == SelectSeq(tts_msgs, LAMBDA m : m.type = "Close")

\* C31 (as claimed) - flush and close: every text sent to TTS is followed at
\* once by a Flush; Close is sent only after the LLM stream has ended, after
\* the last flush and as the last message; and when tts_runner has ended
\* without being cancelled, so that the turn completes, Close was sent exactly
\* once and the TTS reader task has finished.
FlushedThenClosed ==
    /\ \A k \in 1..Len(tts_msgs) :
          tts_msgs[k].type = "Text" => k < Len(tts_msgs) /\ tts_msgs[k + 1].type = "Flush"
    /\ \A k \in 1..Len(tts_msgs) :
          tts_msgs[k].type = "Close" =>
              /\ llm_done
              /\ k = Len(tts_msgs)
              /\ k > 1 => tts_msgs[k - 1].type = "Flush"
    /\ Len(Closes) <= 1
    /\ runner = "done" => Len(Closes) = 1 /\ listen # "reading"
\* s[p..q] is a sentence boundary: . ! or ? followed by whitespace only, or
\* newlines only, at least two characters
Boundary(s, p, q) ==
    /\ p < q
    /\ \/ s[p] \in {".", "!", "?"} /\ \A k \in (p + 1)..q : IsSpace(s[k])
       \/ \A k \in p..q : s[k] = "\n"
BoundaryFrom(s, p) == \E q \in (p + 1)..Len(s) : Boundary(s, p, q)

\* s is one complete sentence: it ends with a boundary and no boundary begins
\* before that one
CompleteSentence(s) ==
    \E p \in 1..Len(s) :
        /\ Boundary(s, p, Len(s))
        /\ \A r \in 1..(p - 1) : ~BoundaryFrom(s, r)

NoBlankFragment ==
    /\ Len(Fragments) = Len(Spoken)
    /\ \A k \in 1..Len(tts_msgs) :
          /\ tts_msgs[k].type = "Text" => Strip(tts_msgs[k].text) # << >>
          /\ tts_msgs[k].type = "Flush" =>
                /\ k > 1
                /\ tts_msgs[k - 1].type = "Text"
                /\ Strip(tts_msgs[k - 1].text) # << >>
\* on_stt_message handles an EndOfTurn message in this step (logged calls)
EndOfTurnHandled == stt_msg' # stt_msg

\* C34 - a turn begins only on an EndOfTurn with text: an EndOfTurn message
\* without text schedules no on_turn_end and leaves state, speak_epoch, the
\* turn tasks and the TTS tasks as they were; in a logged call on_turn_end is
\* scheduled only in a step that handles an EndOfTurn with text; and a turn
\* task is created only by a scheduled on_turn_end.
TurnOnlyOnTextStep ==
    /\ (EndOfTurnHandled /\ stt_msg'.transcript = << >>) =>
          UNCHANGED << state, speak_epoch, turn_task, tts_task, turn, tts, ote, ote_wait,
                       turn_cancel, tts_cancel >>
    /\ call.log =>
          \A k \in Tasks : (ote[k] = "none" /\ ote'[k] # "none") =>
              EndOfTurnHandled /\ stt_msg'.transcript # << >>
    /\ \A k \in Tasks : (turn[k] = "none" /\ turn'[k] # "none") => ote[k] \in {"ready", "await"}
TurnOnlyOnText == [][TurnOnlyOnTextStep]_vars

\* C34 witness: the EndOfTurn handled last had no text and arrived while a
\* reply was speaking, after the EndOfTurn that began the turn; one
\* on_turn_end was scheduled and the reply goes on
TurnOnlyOnTextWitness ==
    /\ call.log
    /\ stt_msg.number > 0
    /\ stt_msg.transcript = << >>
    /\ stt_msg.during = "speaking"
    /\ state = "speaking"
    /\ \E i \in Tasks : turn[i] = "awaitTts" /\ tts[i] = "streaming" /\ audio_chunk_count[i] > 0
    /\ Cardinality({ k \in Tasks : ote[k] # "none" }) = 1
\* turn i enters speaking in this step
EntersSpeaking(i) == tts[i] = "none" /\ tts'[i] = "connecting"

\* while a reply is speaking with the latch armed, the latch was armed by a
\* trigger accepted against that reply
LatchOfCurrentReply ==
    (barge_in_latched /\ state = "speaking" /\ tts_task # None) =>
        \E j \in Handlers : ih[j] # "none" /\ ih_target[j] = tts_task

\* C35 - the latch is clear whenever a turn enters speaking, and a latch
\* armed during an earlier reply never holds during a later one: a step in
\* which a turn enters speaking leaves state speaking and the latch clear,
\* and a latch found armed while a reply is speaking was armed by a trigger
\* accepted against that very reply.
LatchClearStep ==
    /\ \A i \in Tasks : EntersSpeaking(i) => state' = "speaking" /\ ~barge_in_latched'
    /\ LatchOfCurrentReply'
LatchClearOnSpeaking == [][LatchClearStep]_vars

\* C35 witness: a later reply is speaking with the latch clear, after a
\* barge-in armed the latch on an earlier reply and cancelled it
LatchClearOnSpeakingWitness ==
    /\ state = "speaking"
    /\ ~barge_in_latched
    /\ \E i \in Tasks : \E j \in Handlers :
          /\ tts_task = i
          /\ tts[i] = "streaming"
          /\ ih[j] = "done"
          /\ ih_target[j] # None
          /\ ih_target[j] < i
          /\ tts[ih_target[j]] = "cancelled"
\* the handler j runs from its start in this step
HandlerStarts(j) == ih[j] = "ready" /\ ih'[j] # "ready"

\* C36 - a handler that finds state other than speaking changes nothing: it
\* returns at once; speak_epoch, the messages written to the telephony
\* WebSocket, the cancellation requests, the tasks and state stay as they
\* were, and so does everything else but the handler's own position.
IdleInterruptStep ==
    \A j \in Handlers : (HandlerStarts(j) /\ state # "speaking") =>
        /\ ih' = [ih EXCEPT ![j] = "done"]
        /\ UNCHANGED << state, speak_epoch, wire, tts_cancel, turn_cancel, tts, turn, tts_task,
                        turn_task, latchVars, ih_wait, ih_epoch, conversation_id, oteVars >>
IdleInterruptChangesNothing == [][IdleInterruptStep]_vars

\* C36 witness: a handler created while a reply was speaking ran after state
\* had left speaking and returned at once: it never incremented the epoch,
\* never awaited a task, and no "clear" was written
IdleInterruptWitness ==
    /\ \E j \in Handlers :
          /\ ih[j] = "done"
          /\ ih_target[j] # None
          /\ ih_epoch[j] = 0
          /\ ih_wait[j] = None
    /\ \A k \in 1..Len(wire) : wire[k].kind # "clear"
    /\ \A i \in Tasks : ~tts_cancel[i] /\ ~turn_cancel[i]
\* the codeword of negative zero (sign set, exponent and mantissa zero), which
\* decodes to the same sample as the codeword of zero
NegativeZero(byte) == SignOf(byte) = 1 /\ ExponentOf(byte) = 0 /\ MantissaOf(byte) = 0

\* C38 (as claimed) - codewords are fixed points of decode-then-encode: for
\* every byte other than the negative-zero codeword, encoding the sample the
\* byte decodes to gives the byte back.
CodewordFixedPoint ==
    (codec = "recoded" /\ ~NegativeZero(mulaw)) => recoded = mulaw
\* C37 (as claimed) - the Stream url of the webhook answer: its scheme is wss
\* if the request arrived over TLS (the scheme of the request is https) or
\* the host header holds the name of the tunneling provider, and ws
\* otherwise; its host is the request's host header and its path /ws/twilio.
StreamUrlScheme ==
    hook = "answered" =>
        /\ twiml.protocol = (IF request.scheme = Https \/ IsIn(Ngrok, request.host)
                             THEN "wss" ELSE "ws")
        /\ twiml.host = request.host
        /\ twiml.path = "/ws/twilio"
\* C39 (as claimed) - ticket ids: every call of create_reservation_ticket
\* succeeds, also when calls overlap; the calls that have returned returned
\* ticket ids that differ pairwise; and no two rows share a ticket_id.
TicketIdsDistinct ==
    /\ \A c \in Callers : tk[c] # "failed"
    /\ \A c, d \in Callers :
          (c # d /\ tk[c] = "done" /\ tk[d] = "done") => TicketId(next_num[c]) # TicketId(next_num[d])
    /\ \A k, m \in 1..Len(tickets) : k # m => tickets[k].ticket_id # tickets[m].ticket_id
====
